---- MODULE Spec2Model ----
(***************************************************************************)
(* Model of the internship discovery engine's filtering pipeline:          *)
(* the JobPosting entity (models.py), the content-hash deduplicator        *)
(* (deduplication.py), the location filter (location_filter.py), the       *)
(* keyword categorizer (categorization.py), the track scorer (tracks.py)   *)
(* and the per-result loop of cmd_run (cli.py).                            *)
(*                                                                         *)
(* A Python str is a sequence of one-character strings.  An Optional value *)
(* is None (the empty tuple) or Some(x) (a one-element tuple).  A call     *)
(* that can raise returns a record whose field raised names the exception  *)
(* (NoExc when the call returned normally).                                *)
(***************************************************************************)
EXTENDS Integers, Sequences, FiniteSets, TLC

None == <<>>
Some(x) == <<x>>
NoExc == "no exception"

(***************************************************************************)
(* Python str operations used by the source.                               *)
(***************************************************************************)
Uppercase ==
  <<"A","B","C","D","E","F","G","H","I","J","K","L","M",
    "N","O","P","Q","R","S","T","U","V","W","X","Y","Z">>

Lowercase ==
  <<"a","b","c","d","e","f","g","h","i","j","k","l","m",
    "n","o","p","q","r","s","t","u","v","w","x","y","z">>

Whitespace == {" ", "\t", "\n"}

lower_char(c) ==
  IF \E i \in DOMAIN Uppercase : Uppercase[i] = c
    THEN Lowercase[CHOOSE i \in DOMAIN Uppercase : Uppercase[i] = c]
    ELSE c

\* str.lower()
RECURSIVE lower(_)
lower(s) ==
  IF s = <<>> THEN <<>> ELSE <<lower_char(Head(s))>> \o lower(Tail(s))

RECURSIVE lstrip(_)
lstrip(s) ==
  IF s /= <<>> /\ Head(s) \in Whitespace THEN lstrip(Tail(s)) ELSE s

RECURSIVE rstrip(_)
rstrip(s) ==
  IF s /= <<>> /\ s[Len(s)] \in Whitespace
    THEN rstrip(SubSeq(s, 1, Len(s) - 1))
    ELSE s

\* str.strip()
strip(s) == rstrip(lstrip(s))

\* Python's  needle in hay  on two str values
Contains(needle, hay) ==
  \E i \in 1..(Len(hay) - Len(needle) + 1) :
    SubSeq(hay, i, i + Len(needle) - 1) = needle

\* sep.join(parts)
RECURSIVE join(_, _)
join(sep, parts) ==
  IF parts = <<>> THEN <<>>
  ELSE IF Len(parts) = 1 THEN parts[1]
  ELSE parts[1] \o sep \o join(sep, Tail(parts))

\* getattr(obj, name): a pydantic model raises AttributeError for a name that
\* is not one of its fields.
HasAttr(obj, name) == name \in DOMAIN obj

(***************************************************************************)
(* models.py                                                               *)
(***************************************************************************)
Category ==
  {"software", "data", "product", "design", "finance", "marketing", "other"}

DatePostedConfidence == {"exact", "estimated", "unknown"}

\* The literal "remote" of JobPosting._infer_remote
REMOTE == <<"r","e","m","o","t","e">>

\* A keyword argument, or the field's default when the caller gives none
Arg(kw, name, default) == IF name \in DOMAIN kw THEN kw[name] ELSE default

\* _strip with trailing whitespace kept
_strip_leading_only(v) == lstrip(v)

\* JobPosting._strip, the "before" validator of title, company and location
_strip(v) == strip(v)

\* _infer_remote with is_remote set to whether the location says remote
_infer_remote_overwrites(self) ==
  [self EXCEPT !.is_remote = Contains(REMOTE, lower(self.location))]

\* _infer_remote without the lower() of the location
_infer_remote_case_sensitive(self) ==
  IF ~self.is_remote /\ Contains(REMOTE, self.location)
    THEN [self EXCEPT !.is_remote = TRUE]
    ELSE self

\* JobPosting._infer_remote, the "after" model validator
_infer_remote(self) ==
  IF ~self.is_remote /\ Contains(REMOTE, lower(self.location))
    THEN [self EXCEPT !.is_remote = TRUE]
    ELSE self

\* JobPosting(**kw): the fields with their defaults, the field validators,
\* then the model validator.  title, company, location and posting_url are
\* required.
JobPosting(kw) ==
  _infer_remote(
    [title |-> _strip(kw.title),
     company |-> _strip(kw.company),
     location |-> _strip(kw.location),
     description |-> Arg(kw, "description", <<>>),
     posting_url |-> kw.posting_url,
     apply_url |-> Arg(kw, "apply_url", None),
     date_posted |-> Arg(kw, "date_posted", None),
     date_posted_confidence |-> Arg(kw, "date_posted_confidence", "unknown"),
     source |-> Arg(kw, "source", <<>>),
     category |-> Arg(kw, "category", None),
     is_remote |-> Arg(kw, "is_remote", FALSE)])

\* posting.model_copy(update=...): pydantic copies without running validators
model_copy(posting, update) ==
  [name \in DOMAIN posting |->
     IF name \in DOMAIN update THEN update[name] ELSE posting[name]]

(***************************************************************************)
(* deduplication.py                                                        *)
(***************************************************************************)
\* _SEP = "\x00"
_SEP == <<"\\x00">>

\* hashlib.sha256(...).hexdigest(), taken as collision free: distinct inputs
\* give distinct digests.
sha256_hexdigest(canonical) == <<"sha256", canonical>>

\* compute_hash reads posting.title, posting.company and posting.url, in
\* that order.
compute_hash(posting) ==
  IF ~HasAttr(posting, "title") \/ ~HasAttr(posting, "company")
       \/ ~HasAttr(posting, "url")
    THEN [raised |-> "AttributeError", value |-> None]
    ELSE [raised |-> NoExc,
          value |-> sha256_hexdigest(join(_SEP,
                      <<strip(lower(posting.title)),
                        strip(lower(posting.company)),
                        strip(lower(posting.url))>>))]

\* DuplicateFilter.__init__: self._seen = set(initial_hashes or ())
DuplicateFilter(initial_hashes) ==
  IF initial_hashes = None THEN {} ELSE initial_hashes[1]

\* DuplicateFilter.seen_count
seen_count(self_seen) == Cardinality(self_seen)

\* DuplicateFilter.is_new: the filter's set after the call, and what the
\* call returned or raised.
is_new(self_seen, posting) ==
  LET h == compute_hash(posting)
  IN  IF h.raised /= NoExc
        THEN [seen |-> self_seen, raised |-> h.raised, ret |-> FALSE]
      ELSE IF h.value \in self_seen
        THEN [seen |-> self_seen, raised |-> NoExc, ret |-> FALSE]
      ELSE [seen |-> self_seen \cup {h.value}, raised |-> NoExc, ret |-> TRUE]

\* DuplicateFilter.filter_new: [p for p in postings if self.is_new(p)].
\* An exception leaves the list unbuilt; what is_new recorded before stays.
RECURSIVE filter_new(_, _)
filter_new(self_seen, postings) ==
  IF postings = <<>>
    THEN [seen |-> self_seen, raised |-> NoExc, ret |-> <<>>]
    ELSE LET first == is_new(self_seen, Head(postings))
         IN  IF first.raised /= NoExc
               THEN [seen |-> first.seen, raised |-> first.raised, ret |-> <<>>]
               ELSE LET rest == filter_new(first.seen, Tail(postings))
                    IN  [seen |-> rest.seen,
                         raised |-> rest.raised,
                         ret |-> IF rest.raised /= NoExc THEN <<>>
                                 ELSE IF first.ret
                                   THEN <<Head(postings)>> \o rest.ret
                                   ELSE rest.ret]

\* DuplicateFilter.hashes: frozenset(self._seen), a new object holding the
\* elements the set has now.
hashes_empty(self_seen) == [object |-> "frozenset", value |-> {}]

hashes(self_seen) == [object |-> "frozenset", value |-> self_seen]

(***************************************************************************)
(* location_filter.py                                                      *)
(***************************************************************************)
\* LocationFilter(allowed_locations=(), include_remote=True)
LocationFilter(kw) ==
  [allowed_locations |-> Arg(kw, "allowed_locations", <<>>),
   include_remote |-> Arg(kw, "include_remote", TRUE)]

\* matches without the lower() of the allowed locations
matches_case_sensitive(self, posting) ==
  IF posting.is_remote THEN self.include_remote
  ELSE IF self.allowed_locations = <<>> THEN TRUE
  ELSE \E i \in DOMAIN self.allowed_locations :
         Contains(self.allowed_locations[i], lower(posting.location))

\* LocationFilter.matches
matches(self, posting) ==
  IF posting.is_remote THEN self.include_remote
  ELSE IF self.allowed_locations = <<>> THEN TRUE
  ELSE LET location_lower == lower(posting.location)
       IN  \E i \in DOMAIN self.allowed_locations :
             Contains(lower(self.allowed_locations[i]), location_lower)

(***************************************************************************)
(* categorization.py                                                       *)
(***************************************************************************)
\* The keyword registry, in insertion order
_CATEGORY_KEYWORDS ==
  <<
    [category |-> "data", keywords |-> <<
      <<"d","a","t","a"," ","s","c","i","e","n","c","e">>,
      <<"m","a","c","h","i","n","e"," ","l","e","a","r","n","i","n","g">>,
      <<"d","e","e","p"," ","l","e","a","r","n","i","n","g">>,
      <<"a","r","t","i","f","i","c","i","a","l"," ","i","n","t","e","l","l","i","g","e","n","c","e">>,
      <<"c","o","m","p","u","t","e","r"," ","v","i","s","i","o","n">>,
      <<"n","a","t","u","r","a","l"," ","l","a","n","g","u","a","g","e">>,
      <<"n","l","p">>,
      <<"r","e","s","e","a","r","c","h"," ","s","c","i","e","n","t","i","s","t">>,
      <<"m","l"," ","e","n","g","i","n","e","e","r">>,
      <<"d","a","t","a"," ","e","n","g","i","n","e","e","r">>,
      <<"d","a","t","a"," ","a","n","a","l","y","s","t">>,
      <<"a","n","a","l","y","t","i","c","s">>,
      <<"d","a","t","a">>
    >>],
    [category |-> "product", keywords |-> <<
      <<"p","r","o","d","u","c","t"," ","m","a","n","a","g","e","r">>,
      <<"p","r","o","d","u","c","t"," ","m","a","n","a","g","e","m","e","n","t">>,
      <<"p","r","o","d","u","c","t"," ","o","w","n","e","r">>,
      <<"p","r","o","g","r","a","m"," ","m","a","n","a","g","e","r">>
    >>],
    [category |-> "design", keywords |-> <<
      <<"u","s","e","r"," ","e","x","p","e","r","i","e","n","c","e">>,
      <<"u","s","e","r"," ","i","n","t","e","r","f","a","c","e">>,
      <<"u","x"," ","r","e","s","e","a","r","c","h","e","r">>,
      <<"u","x"," ","d","e","s","i","g","n","e","r">>,
      <<"u","i"," ","d","e","s","i","g","n","e","r">>,
      <<"g","r","a","p","h","i","c"," ","d","e","s","i","g","n","e","r">>,
      <<"v","i","s","u","a","l"," ","d","e","s","i","g","n","e","r">>,
      <<"d","e","s","i","g","n">>
    >>],
    [category |-> "finance", keywords |-> <<
      <<"q","u","a","n","t","i","t","a","t","i","v","e">>,
      <<"i","n","v","e","s","t","m","e","n","t"," ","b","a","n","k","i","n","g">>,
      <<"f","i","n","a","n","c","i","a","l"," ","a","n","a","l","y","s","t">>,
      <<"a","c","c","o","u","n","t","i","n","g">>,
      <<"f","i","n","a","n","c","e">>,
      <<"t","r","a","d","i","n","g">>,
      <<"q","u","a","n","t">>
    >>],
    [category |-> "marketing", keywords |-> <<
      <<"d","i","g","i","t","a","l"," ","m","a","r","k","e","t","i","n","g">>,
      <<"c","o","n","t","e","n","t"," ","m","a","r","k","e","t","i","n","g">>,
      <<"g","r","o","w","t","h"," ","m","a","r","k","e","t","i","n","g">>,
      <<"s","e","o">>,
      <<"c","o","p","y","w","r","i","t","i","n","g">>,
      <<"s","o","c","i","a","l"," ","m","e","d","i","a">>,
      <<"m","a","r","k","e","t","i","n","g">>
    >>],
    [category |-> "software", keywords |-> <<
      <<"s","o","f","t","w","a","r","e"," ","e","n","g","i","n","e","e","r">>,
      <<"s","o","f","t","w","a","r","e"," ","d","e","v","e","l","o","p","e","r">>,
      <<"b","a","c","k","e","n","d">>,
      <<"f","r","o","n","t","e","n","d">>,
      <<"f","r","o","n","t","-","e","n","d">>,
      <<"b","a","c","k","-","e","n","d">>,
      <<"f","u","l","l","s","t","a","c","k">>,
      <<"f","u","l","l","-","s","t","a","c","k">>,
      <<"f","u","l","l"," ","s","t","a","c","k">>,
      <<"d","e","v","o","p","s">>,
      <<"s","i","t","e"," ","r","e","l","i","a","b","i","l","i","t","y">>,
      <<"s","r","e">>,
      <<"p","l","a","t","f","o","r","m"," ","e","n","g","i","n","e","e","r">>,
      <<"m","o","b","i","l","e"," ","d","e","v","e","l","o","p","e","r">>,
      <<"i","o","s"," ","d","e","v","e","l","o","p","e","r">>,
      <<"a","n","d","r","o","i","d"," ","d","e","v","e","l","o","p","e","r">>,
      <<"w","e","b"," ","d","e","v","e","l","o","p","e","r">>,
      <<"a","p","i"," ","d","e","v","e","l","o","p","e","r">>,
      <<"i","n","f","r","a","s","t","r","u","c","t","u","r","e"," ","e","n","g","i","n","e","e","r">>,
      <<"d","e","v","e","l","o","p","e","r">>,
      <<"e","n","g","i","n","e","e","r">>
    >>]
  >>

\* The loop of categorize from the i-th registry entry on: the first
\* category with a keyword in the haystack, Category.OTHER when none has.
RECURSIVE categorize_from(_, _, _)
categorize_from(registry, haystack, i) ==
  IF i > Len(registry) THEN "other"
  ELSE IF \E k \in DOMAIN registry[i].keywords :
            Contains(registry[i].keywords[k], haystack)
    THEN registry[i].category
    ELSE categorize_from(registry, haystack, i + 1)

\* categorize with the registry searched from its last entry
RECURSIVE categorize_from_last(_, _, _)
categorize_from_last(registry, haystack, i) ==
  IF i < 1 THEN "other"
  ELSE IF \E k \in DOMAIN registry[i].keywords :
            Contains(registry[i].keywords[k], haystack)
    THEN registry[i].category
    ELSE categorize_from_last(registry, haystack, i - 1)

categorize_last_match(posting) ==
  LET haystack == lower(posting.title \o <<" ">> \o posting.description)
  IN  categorize_from_last(_CATEGORY_KEYWORDS, haystack,
                           Len(_CATEGORY_KEYWORDS))

\* categorize(posting)
categorize(posting) ==
  LET haystack == lower(posting.title \o <<" ">> \o posting.description)
  IN  categorize_from(_CATEGORY_KEYWORDS, haystack, 1)

(***************************************************************************)
(* tracks.py                                                               *)
(***************************************************************************)
\* class Track, in declaration order
Track == <<"cyber", "it", "swe", "data", "all">>

_TRACK_KEYWORDS ==
  [
    cyber |-> [strong |-> <<
      <<"c","y","b","e","r","s","e","c","u","r","i","t","y">>,
      <<"c","y","b","e","r"," ","s","e","c","u","r","i","t","y">>,
      <<"i","n","f","o","r","m","a","t","i","o","n"," ","s","e","c","u","r","i","t","y">>,
      <<"i","n","f","o","s","e","c">>,
      <<"s","o","c"," ","a","n","a","l","y","s","t">>,
      <<"s","o","c"," ","i","n","t","e","r","n">>,
      <<"p","e","n","e","t","r","a","t","i","o","n"," ","t","e","s","t">>,
      <<"p","e","n","t","e","s","t">>,
      <<"s","e","c","u","r","i","t","y"," ","a","n","a","l","y","s","t">>,
      <<"s","e","c","u","r","i","t","y"," ","e","n","g","i","n","e","e","r">>,
      <<"n","e","t","w","o","r","k"," ","s","e","c","u","r","i","t","y">>,
      <<"v","u","l","n","e","r","a","b","i","l","i","t","y">>,
      <<"t","h","r","e","a","t"," ","i","n","t","e","l","l","i","g","e","n","c","e">>,
      <<"m","a","l","w","a","r","e">>,
      <<"f","o","r","e","n","s","i","c","s">>,
      <<"i","n","c","i","d","e","n","t"," ","r","e","s","p","o","n","s","e">>,
      <<"s","e","c","u","r","i","t","y"," ","o","p","e","r","a","t","i","o","n","s">>,
      <<"e","t","h","i","c","a","l"," ","h","a","c","k","i","n","g">>
    >>, weak |-> <<
      <<"s","e","c","u","r","i","t","y">>,
      <<"c","y","b","e","r">>,
      <<"f","i","r","e","w","a","l","l">>,
      <<"c","o","m","p","l","i","a","n","c","e">>,
      <<"a","u","d","i","t">>
    >>],
    it |-> [strong |-> <<
      <<"h","e","l","p"," ","d","e","s","k">>,
      <<"h","e","l","p","d","e","s","k">>,
      <<"d","e","s","k","t","o","p"," ","s","u","p","p","o","r","t">>,
      <<"i","t"," ","s","u","p","p","o","r","t">>,
      <<"s","y","s","t","e","m","s"," ","a","d","m","i","n","i","s","t","r","a","t","o","r">>,
      <<"s","y","s","a","d","m","i","n">>,
      <<"n","e","t","w","o","r","k"," ","a","d","m","i","n","i","s","t","r","a","t","o","r">>,
      <<"i","t"," ","a","n","a","l","y","s","t">>,
      <<"i","t"," ","t","e","c","h","n","i","c","i","a","n">>,
      <<"i","t"," ","s","p","e","c","i","a","l","i","s","t">>,
      <<"s","e","r","v","i","c","e"," ","d","e","s","k">>,
      <<"i","n","f","o","r","m","a","t","i","o","n"," ","t","e","c","h","n","o","l","o","g","y"," ","i","n","t","e","r","n">>
    >>, weak |-> <<
      <<"i","t"," ","i","n","t","e","r","n">>,
      <<"t","e","c","h"," ","s","u","p","p","o","r","t">>,
      <<"s","y","s","t","e","m","s">>,
      <<"n","e","t","w","o","r","k">>,
      <<"i","n","f","r","a","s","t","r","u","c","t","u","r","e">>,
      <<"w","i","n","d","o","w","s">>,
      <<"a","c","t","i","v","e"," ","d","i","r","e","c","t","o","r","y">>,
      <<"h","a","r","d","w","a","r","e">>,
      <<"t","r","o","u","b","l","e","s","h","o","o","t">>
    >>],
    swe |-> [strong |-> <<
      <<"s","o","f","t","w","a","r","e"," ","e","n","g","i","n","e","e","r">>,
      <<"s","o","f","t","w","a","r","e"," ","d","e","v","e","l","o","p","e","r">>,
      <<"s","w","e"," ","i","n","t","e","r","n">>,
      <<"b","a","c","k","e","n","d"," ","e","n","g","i","n","e","e","r">>,
      <<"f","r","o","n","t","e","n","d"," ","e","n","g","i","n","e","e","r">>,
      <<"f","u","l","l"," ","s","t","a","c","k">>,
      <<"f","u","l","l","s","t","a","c","k">>,
      <<"w","e","b"," ","d","e","v","e","l","o","p","e","r">>,
      <<"a","p","p","l","i","c","a","t","i","o","n"," ","d","e","v","e","l","o","p","e","r">>,
      <<"m","o","b","i","l","e"," ","d","e","v","e","l","o","p","e","r">>,
      <<"i","o","s"," ","d","e","v","e","l","o","p","e","r">>,
      <<"a","n","d","r","o","i","d"," ","d","e","v","e","l","o","p","e","r">>,
      <<"d","e","v","o","p","s">>,
      <<"s","i","t","e"," ","r","e","l","i","a","b","i","l","i","t","y">>,
      <<"p","l","a","t","f","o","r","m"," ","e","n","g","i","n","e","e","r">>
    >>, weak |-> <<
      <<"d","e","v","e","l","o","p","e","r">>,
      <<"p","r","o","g","r","a","m","m","e","r">>,
      <<"c","o","d","i","n","g">>,
      <<"p","y","t","h","o","n">>,
      <<"j","a","v","a">>,
      <<"j","a","v","a","s","c","r","i","p","t">>,
      <<"r","e","a","c","t">>,
      <<"n","o","d","e">>,
      <<"b","a","c","k","e","n","d">>,
      <<"f","r","o","n","t","e","n","d">>,
      <<"a","p","i">>,
      <<"k","u","b","e","r","n","e","t","e","s">>,
      <<"d","o","c","k","e","r">>
    >>],
    data |-> [strong |-> <<
      <<"d","a","t","a"," ","a","n","a","l","y","s","t">>,
      <<"d","a","t","a"," ","s","c","i","e","n","t","i","s","t">>,
      <<"d","a","t","a"," ","e","n","g","i","n","e","e","r">>,
      <<"b","u","s","i","n","e","s","s"," ","i","n","t","e","l","l","i","g","e","n","c","e">>,
      <<"b","i"," ","a","n","a","l","y","s","t">>,
      <<"m","a","c","h","i","n","e"," ","l","e","a","r","n","i","n","g">>,
      <<"m","l"," ","e","n","g","i","n","e","e","r">>,
      <<"a","n","a","l","y","t","i","c","s"," ","e","n","g","i","n","e","e","r">>,
      <<"d","a","t","a"," ","a","n","a","l","y","t","i","c","s">>,
      <<"d","a","t","a"," ","s","c","i","e","n","c","e">>,
      <<"q","u","a","n","t","i","t","a","t","i","v","e"," ","a","n","a","l","y","s","t">>
    >>, weak |-> <<
      <<"d","a","t","a">>,
      <<"a","n","a","l","y","t","i","c","s">>,
      <<"s","q","l">>,
      <<"e","t","l">>,
      <<"t","a","b","l","e","a","u">>,
      <<"p","o","w","e","r"," ","b","i">>,
      <<"p","a","n","d","a","s">>,
      <<"n","u","m","p","y">>,
      <<"s","t","a","t","i","s","t","i","c","s">>,
      <<"r","e","p","o","r","t","i","n","g">>,
      <<"d","a","s","h","b","o","a","r","d">>
    >>]
  ]

_NEGATIVE_KEYWORDS ==
  <<
    <<"s","a","l","e","s">>,
    <<"m","a","r","k","e","t","i","n","g">>,
    <<"r","e","a","l"," ","e","s","t","a","t","e">>,
    <<"i","n","s","u","r","a","n","c","e">>,
    <<"r","e","t","a","i","l">>,
    <<"c","a","s","h","i","e","r">>,
    <<"b","a","r","i","s","t","a">>,
    <<"s","o","c","i","a","l"," ","m","e","d","i","a"," ","m","a","n","a","g","e","r">>,
    <<"c","u","s","t","o","m","e","r"," ","s","e","r","v","i","c","e">>,
    <<"s","t","o","r","e">>,
    <<"r","e","s","t","a","u","r","a","n","t">>,
    <<"h","o","s","p","i","t","a","l","i","t","y">>
  >>

_MIN_SCORE == 3

_PENALTY == 3

\* One keyword loop of score_track: in_title for a keyword found in the
\* title, else in_desc for one found in the description.
RECURSIVE tier_score(_, _, _, _, _)
tier_score(keywords, title, desc, in_title, in_desc) ==
  IF keywords = <<>> THEN 0
  ELSE (IF Contains(Head(keywords), title) THEN in_title
        ELSE IF Contains(Head(keywords), desc) THEN in_desc
        ELSE 0)
       + tier_score(Tail(keywords), title, desc, in_title, in_desc)

\* The negative-keyword loop of score_track
RECURSIVE penalties(_, _)
penalties(keywords, full_text) ==
  IF keywords = <<>> THEN 0
  ELSE (IF Contains(Head(keywords), full_text) THEN _PENALTY ELSE 0)
       + penalties(Tail(keywords), full_text)

max(a, b) == IF a >= b THEN a ELSE b

\* score_track with a keyword scored in the title and again in the
\* description
score_track_counts_both(posting, track) ==
  IF track = "all" THEN 1
  ELSE LET kws == _TRACK_KEYWORDS[track]
           title == lower(posting.title)
           desc == lower(posting.description)
           full_text == title \o <<" ">> \o desc
           score == tier_score(kws.strong, title, <<>>, 10, 0)
                      + tier_score(kws.strong, desc, <<>>, 5, 0)
                      + tier_score(kws.weak, title, <<>>, 3, 0)
                      + tier_score(kws.weak, desc, <<>>, 1, 0)
                      - penalties(_NEGATIVE_KEYWORDS, full_text)
       IN  max(0, score)

\* score_track with a strong keyword worth as much in the description as in
\* the title
score_track_flat(posting, track) ==
  IF track = "all" THEN 1
  ELSE LET kws == _TRACK_KEYWORDS[track]
           title == lower(posting.title)
           desc == lower(posting.description)
           full_text == title \o <<" ">> \o desc
           score == tier_score(kws.strong, title, desc, 10, 10)
                      + tier_score(kws.weak, title, desc, 3, 1)
                      - penalties(_NEGATIVE_KEYWORDS, full_text)
       IN  max(0, score)

\* score_track returning the running total as it stands
score_track_no_floor(posting, track) ==
  IF track = "all" THEN 1
  ELSE LET kws == _TRACK_KEYWORDS[track]
           title == lower(posting.title)
           desc == lower(posting.description)
           full_text == title \o <<" ">> \o desc
       IN  tier_score(kws.strong, title, desc, 10, 5)
             + tier_score(kws.weak, title, desc, 3, 1)
             - penalties(_NEGATIVE_KEYWORDS, full_text)

\* score_track(posting, track)
score_track(posting, track) ==
  IF track = "all" THEN 1
  ELSE LET kws == _TRACK_KEYWORDS[track]
           title == lower(posting.title)
           desc == lower(posting.description)
           full_text == title \o <<" ">> \o desc
           score == tier_score(kws.strong, title, desc, 10, 5)
                      + tier_score(kws.weak, title, desc, 3, 1)
                      - penalties(_NEGATIVE_KEYWORDS, full_text)
       IN  max(0, score)

\* Track.value, as text
TrackValue ==
  [cyber |-> <<"c","y","b","e","r">>, it |-> <<"i","t">>, swe |-> <<"s","w","e">>, data |-> <<"d","a","t","a">>, all |-> <<"a","l","l">>]

\* score_all_tracks(posting): the dict, as its items in insertion order
score_all_tracks(posting) ==
  LET tracks == SelectSeq(Track, LAMBDA t : t /= "all")
  IN  [i \in DOMAIN tracks |->
         [track |-> tracks[i], score |-> score_track(posting, tracks[i])]]

\* best_tracks with a score that equals min_score left out
best_tracks_strictly_above(posting, kwargs) ==
  LET min_score == Arg(kwargs, "min_score", _MIN_SCORE)
      items == SelectSeq(score_all_tracks(posting),
                         LAMBDA item : item.score > min_score)
  IN  [i \in DOMAIN items |-> items[i].track]

\* best_tracks(posting, *, min_score=_MIN_SCORE)
best_tracks(posting, kwargs) ==
  LET min_score == Arg(kwargs, "min_score", _MIN_SCORE)
      items == SelectSeq(score_all_tracks(posting),
                         LAMBDA item : item.score >= min_score)
  IN  [i \in DOMAIN items |-> items[i].track]

\* track_match_label(posting, *, min_score=_MIN_SCORE)
track_match_label(posting, kwargs) ==
  LET matched == best_tracks(posting,
                   [min_score |-> Arg(kwargs, "min_score", _MIN_SCORE)])
  IN  IF matched = <<>> THEN <<>>
      ELSE join(<<"|">>, [i \in DOMAIN matched |-> TrackValue[matched[i]]])

(***************************************************************************)
(* active_check.py                                                         *)
(***************************************************************************)
\* ActiveStatus: active, inactive, and unknown for an indeterminate probe
ActiveStatus == {"active", "inactive", "unknown"}

_CLOSED_SIGNALS ==
  <<
    <<"n","o"," ","l","o","n","g","e","r"," ","a","v","a","i","l","a","b","l","e">>,
    <<"p","o","s","i","t","i","o","n"," ","h","a","s"," ","b","e","e","n"," ","f","i","l","l","e","d">>,
    <<"j","o","b"," ","c","l","o","s","e","d">>,
    <<"n","o","t"," ","a","c","c","e","p","t","i","n","g"," ","a","p","p","l","i","c","a","t","i","o","n","s">>,
    <<"r","e","q","u","i","s","i","t","i","o","n"," ","c","l","o","s","e","d">>,
    <<"t","h","i","s"," ","p","o","s","t","i","n","g"," ","h","a","s"," ","e","x","p","i","r","e","d">>,
    <<"j","o","b"," ","l","i","s","t","i","n","g"," ","i","s"," ","n","o"," ","l","o","n","g","e","r">>,
    <<"j","o","b"," ","h","a","s"," ","b","e","e","n"," ","f","i","l","l","e","d">>,
    <<"p","o","s","i","t","i","o","n"," ","i","s"," ","n","o"," ","l","o","n","g","e","r"," ","a","v","a","i","l","a","b","l","e">>,
    <<"t","h","i","s"," ","j","o","b"," ","i","s"," ","n","o"," ","l","o","n","g","e","r">>,
    <<"l","i","s","t","i","n","g"," ","h","a","s"," ","b","e","e","n"," ","r","e","m","o","v","e","d">>,
    <<"r","o","l","e"," ","h","a","s"," ","b","e","e","n"," ","f","i","l","l","e","d">>
  >>

_APPLY_SIGNALS ==
  <<
    <<"a","p","p","l","y"," ","n","o","w">>,
    <<"a","p","p","l","y"," ","f","o","r"," ","t","h","i","s">>,
    <<"s","u","b","m","i","t"," ","a","p","p","l","i","c","a","t","i","o","n">>,
    <<"a","p","p","l","y"," ","o","n","l","i","n","e">>,
    <<"t","y","p","e","=","\"","s","u","b","m","i","t","\"">>
  >>

\* _GONE_CODES with 410 left out
_GONE_CODES_without_410 == {404}

_GONE_CODES == {404, 410}

_BLOCKED_CODES == {401, 403, 429}

\* ActiveCheckResult(status, reason)
ActiveCheckResult(status, reason) == [status |-> status, reason |-> reason]

\* str(n), n >= 0
RECURSIVE str_int(_)
str_int(n) ==
  LET digit == <<"0","1","2","3","4","5","6","7","8","9">>[(n % 10) + 1]
  IN  IF n < 10 THEN <<digit>> ELSE str_int(n \div 10) \o <<digit>>

\* The exception classes of requests that check_active names, with their
\* subclasses
TimeoutExceptions == {"Timeout", "ConnectTimeout", "ReadTimeout"}

RequestExceptions ==
  TimeoutExceptions
    \cup {"RequestException", "ConnectionError", "HTTPError", "TooManyRedirects"}

\* The closed-signal loop, with the last signal that occurs chosen
RECURSIVE closed_signal_last(_, _)
closed_signal_last(html_lower, i) ==
  IF i > Len(_CLOSED_SIGNALS) THEN None
  ELSE LET later == closed_signal_last(html_lower, i + 1)
       IN  IF later /= None THEN later
           ELSE IF Contains(_CLOSED_SIGNALS[i], html_lower)
             THEN Some(_CLOSED_SIGNALS[i])
             ELSE None

\* The loop "for signal in _CLOSED_SIGNALS", from place i on: the signal it
\* returns on, None when it runs to the end
RECURSIVE closed_signal(_, _)
closed_signal(html_lower, i) ==
  IF i > Len(_CLOSED_SIGNALS) THEN None
  ELSE IF Contains(_CLOSED_SIGNALS[i], html_lower)
    THEN Some(_CLOSED_SIGNALS[i])
    ELSE closed_signal(html_lower, i + 1)

\* check_active(url, session), from what session.get did: raised an
\* exception, or returned a response
check_active(response) ==
  IF response.raised \in TimeoutExceptions
    THEN [raised |-> NoExc,
          ret |-> ActiveCheckResult("unknown", <<"r","e","q","u","e","s","t"," ","t","i","m","e","d"," ","o","u","t">>)]
  ELSE IF response.raised \in RequestExceptions
    THEN [raised |-> NoExc,
          ret |-> ActiveCheckResult("unknown", <<"r","e","q","u","e","s","t"," ","f","a","i","l","e","d",":"," ">> \o response.message)]
  ELSE IF response.raised /= NoExc
    THEN [raised |-> response.raised, ret |-> None]
  ELSE
    LET code == response.status_code
        http == <<"H","T","T","P"," ">> \o str_int(code)
    IN  [raised |-> NoExc,
         ret |->
           IF code \in _GONE_CODES
             THEN ActiveCheckResult("inactive", http)
           ELSE IF code \in _BLOCKED_CODES
             THEN ActiveCheckResult("unknown", http \o <<" ","\\u2014"," ">> \o <<"p","a","g","e"," ","b","l","o","c","k","e","d">>)
           ELSE IF code >= 500
             THEN ActiveCheckResult("unknown", http \o <<" ","s","e","r","v","e","r"," ","e","r","r","o","r">>)
           ELSE IF code = 200
             THEN LET html_lower == lower(response.text)
                      signal == closed_signal(html_lower, 1)
                      has_apply == \E i \in DOMAIN _APPLY_SIGNALS :
                                     Contains(_APPLY_SIGNALS[i], html_lower)
                  IN  IF signal /= None
                        THEN ActiveCheckResult("inactive",
                               <<"c","l","o","s","e","d"," ","s","i","g","n","a","l",":"," ","'">> \o signal[1] \o <<"'">>)
                        ELSE ActiveCheckResult("active",
                               IF has_apply THEN <<"a","p","p","l","y"," ","b","u","t","t","o","n"," ","d","e","t","e","c","t","e","d">>
                               ELSE <<"n","o"," ","c","l","o","s","e","d"," ","s","i","g","n","a","l","s"," ","f","o","u","n","d">>)
           ELSE ActiveCheckResult("unknown", http)]

(***************************************************************************)
(* extractor.py                                                            *)
(***************************************************************************)
\* ExtractionResult(**kw): the dataclass with its defaults
ExtractionResult(kw) ==
  [title |-> Arg(kw, "title", <<>>),
   company |-> Arg(kw, "company", <<>>),
   location |-> Arg(kw, "location", <<>>),
   description |-> Arg(kw, "description", <<>>),
   date_posted |-> Arg(kw, "date_posted", None),
   date_posted_confidence |-> Arg(kw, "date_posted_confidence", "unknown"),
   apply_url |-> Arg(kw, "apply_url", None),
   employment_type |-> Arg(kw, "employment_type", <<>>),
   blocked |-> Arg(kw, "blocked", FALSE)]

\* _text(value)
_text(value) == IF value = None THEN <<>> ELSE strip(value[1])

\* _parse_date with the parsed date marked as an estimate
_parse_date_estimated(date_str) ==
  IF date_str = None THEN <<None, "unknown">>
  ELSE IF date_str[1].isoformat THEN <<Some(date_str[1].day), "estimated">>
  ELSE <<None, "unknown">>

\* _parse_date(date_str).  A datePosted string is one that fromisoformat
\* accepts, standing for the day it names, or one that it rejects; a date is
\* the number of its day.
_parse_date(date_str) ==
  IF date_str = None THEN <<None, "unknown">>
  ELSE IF date_str[1].isoformat THEN <<Some(date_str[1].day), "exact">>
  ELSE <<None, "unknown">>

\* _parse_apply_url(schema, source_url)
_parse_apply_url(schema, source_url) ==
  LET apply == _text(schema.url)
  IN  IF apply /= <<>> /\ apply /= source_url THEN Some(apply) ELSE None

\* parse_html(html, source_url), from the JobPosting schema
\* _find_job_posting_schema finds in the page, None when it finds none.
\* hiringOrganization and jobLocation are taken in their string form.
parse_html(schema, source_url) ==
  IF schema = None THEN ExtractionResult(<<>>)
  ELSE LET parsed == _parse_date(schema[1].datePosted)
       IN  ExtractionResult(
             [title |-> _text(schema[1].title),
              company |-> strip(schema[1].hiringOrganization),
              location |-> strip(schema[1].jobLocation),
              description |-> _text(schema[1].description),
              date_posted |-> parsed[1],
              date_posted_confidence |-> parsed[2],
              apply_url |-> _parse_apply_url(schema[1], source_url)])

\* fetch_and_extract with the failure result left at blocked = False
fetch_and_extract_unblocked(response, url) ==
  IF response.raised \in RequestExceptions
    THEN ExtractionResult(<<>>)
    ELSE parse_html(response.schema, url)

\* Extractor.fetch_and_extract(url), from what the request for url did:
\* raised one of the requests exceptions (Timeout and HTTPError are caught
\* by their own clauses, every other one by the RequestException clause),
\* or returned a page.
fetch_and_extract(response, url) ==
  IF response.raised \in RequestExceptions
    THEN ExtractionResult([blocked |-> TRUE])
    ELSE parse_html(response.schema, url)

(***************************************************************************)
(* cli.py                                                                  *)
(***************************************************************************)
\* date.today(), as the number of its day
Today == 2

\* cmd_run: cutoff
cutoff_of(args) ==
  IF args.posted_within_days /= None
    THEN Some(Today - args.posted_within_days[1])
    ELSE None

\* The date test with a posting dated on the cutoff excluded too
date_excluded_on_cutoff(cutoff, posting) ==
  /\ cutoff /= None
  /\ posting.date_posted_confidence = "exact"
  /\ posting.date_posted /= None
  /\ posting.date_posted[1] <= cutoff[1]

\* cmd_run: the condition of the date filter
date_excluded(cutoff, posting) ==
  /\ cutoff /= None
  /\ posting.date_posted_confidence = "exact"
  /\ posting.date_posted /= None
  /\ posting.date_posted[1] < cutoff[1]

\* x or y, on strings
or_else(x, y) == IF x /= <<>> THEN x ELSE y

\* cmd_run: the JobPosting built of a search result and its extraction
build_posting(ext, search_result, source_name) ==
  JobPosting(
    [title |-> or_else(ext.title, search_result.title),
     company |-> ext.company,
     location |-> ext.location,
     description |-> ext.description,
     posting_url |-> search_result.url,
     apply_url |-> ext.apply_url,
     date_posted |-> ext.date_posted,
     date_posted_confidence |-> ext.date_posted_confidence,
     source |-> source_name])

(***************************************************************************)
(* sheets.py                                                               *)
(***************************************************************************)
COLUMNS ==
  <<
    <<"A","d","d","e","d"," ","A","t">>,
    <<"C","a","t","e","g","o","r","y">>,
    <<"T","i","t","l","e">>,
    <<"C","o","m","p","a","n","y">>,
    <<"L","o","c","a","t","i","o","n">>,
    <<"D","a","t","e"," ","P","o","s","t","e","d">>,
    <<"D","a","t","e"," ","C","o","n","f","i","d","e","n","c","e">>,
    <<"A","p","p","l","y"," ","U","R","L">>,
    <<"P","o","s","t","i","n","g"," ","U","R","L">>,
    <<"S","o","u","r","c","e">>,
    <<"H","a","s","h">>,
    <<"S","t","a","t","u","s">>,
    <<"S","t","a","t","u","s"," ","R","e","a","s","o","n">>,
    <<"T","r","a","c","k"," ","M","a","t","c","h">>
  >>

\* COLUMNS.index("Hash"), counted from 0
_HASH_COL_INDEX == 10

\* worksheet.insert_row(values, index), on the rows of the worksheet
insert_row(rows, values, index) ==
  SubSeq(rows, 1, index - 1) \o <<values>> \o SubSeq(rows, index, Len(rows))

\* worksheet.update_cell(row, col, value): the cell is set, the cells
\* between the end of the row and col, if any, are empty
update_cell(rows, row, col, value) ==
  LET old == rows[row]
      cells == [c \in 1..max(Len(old), col) |->
                  IF c = col THEN value
                  ELSE IF c <= Len(old) THEN old[c] ELSE <<>>]
  IN  [rows EXCEPT ![row] = cells]

\* The prefix test with the empty header accepted as a prefix
is_prefix_or_empty(existing_header) ==
  LET n == Len(existing_header)
  IN  /\ n < Len(COLUMNS)
      /\ existing_header = SubSeq(COLUMNS, 1, n)

\* 0 < n < len(COLUMNS) and existing_header == COLUMNS[:n]
is_prefix(existing_header) ==
  LET n == Len(existing_header)
  IN  /\ 0 < n
      /\ n < Len(COLUMNS)
      /\ existing_header = SubSeq(COLUMNS, 1, n)

\* for i, col_name in enumerate(missing): update_cell(1, n + 1 + i, col_name)
\* ws holds the rows of the worksheet and the writes made to it so far.
RECURSIVE migrate(_, _, _)
migrate(ws, n, i) ==
  LET missing == SubSeq(COLUMNS, n + 1, Len(COLUMNS))
  IN  IF i >= Len(missing) THEN ws
      ELSE migrate(
             [rows |-> update_cell(ws.rows, 1, n + 1 + i, missing[i + 1]),
              writes |-> Append(ws.writes,
                                [op |-> "update_cell", row |-> 1,
                                 col |-> n + 1 + i, value |-> missing[i + 1]])],
             n, i + 1)

\* ensure_header(worksheet), on the rows get_all_values() returns
ensure_header(existing) ==
  IF existing = <<>>
    THEN [raised |-> NoExc,
          rows |-> insert_row(existing, COLUMNS, 1),
          writes |-> <<[op |-> "insert_row", values |-> COLUMNS, index |-> 1]>>]
  ELSE IF existing[1] = COLUMNS
    THEN [raised |-> NoExc, rows |-> existing, writes |-> <<>>]
  ELSE IF is_prefix(existing[1])
    THEN LET done == migrate([rows |-> existing, writes |-> <<>>],
                             Len(existing[1]), 0)
         IN  [raised |-> NoExc, rows |-> done.rows, writes |-> done.writes]
  ELSE [raised |-> "ValueError", rows |-> existing, writes |-> <<>>]

\* _posting_to_row(posting, h, added_at); a date is written as its day number
_posting_to_row(posting, h, added_at) ==
  IF \E name \in {"active_status", "active_reason", "track_match"} :
       ~HasAttr(posting, name)
    THEN [raised |-> "AttributeError", value |-> None]
    ELSE [raised |-> NoExc,
          value |->
            <<added_at,
              IF posting.category /= None THEN posting.category[1] ELSE <<>>,
              posting.title,
              posting.company,
              posting.location,
              IF posting.date_posted /= None
                THEN str_int(posting.date_posted[1]) ELSE <<>>,
              posting.date_posted_confidence,
              IF posting.apply_url /= None THEN posting.apply_url[1] ELSE <<>>,
              posting.posting_url,
              posting.source,
              h,
              posting.active_status,
              posting.active_reason,
              posting.track_match>>]

\* The hashes upsert_rows collects from the rows below the header
collect_hashes(all_values) ==
  { strip(all_values[r][_HASH_COL_INDEX + 1]) :
      r \in { q \in 2..Len(all_values) :
                Len(all_values[q]) > _HASH_COL_INDEX } } \ {<<>>}

\* "for posting in postings" of upsert_rows, from posting i on; st holds the
\* rows of the worksheet, existing_hashes and appended
RECURSIVE upsert_loop(_, _, _, _)
upsert_loop(st, postings, i, today_str) ==
  IF i > Len(postings)
    THEN [raised |-> NoExc, rows |-> st.rows, ret |-> st.appended]
    ELSE LET h == compute_hash(postings[i])
             row == _posting_to_row(postings[i], h.value, today_str)
         IN  IF h.raised /= NoExc
               THEN [raised |-> h.raised, rows |-> st.rows, ret |-> 0]
             ELSE IF h.value \in st.existing_hashes
               THEN upsert_loop(st, postings, i + 1, today_str)
             ELSE IF row.raised /= NoExc
               THEN [raised |-> row.raised, rows |-> st.rows, ret |-> 0]
             ELSE upsert_loop(
                    [rows |-> Append(st.rows, row.value),
                     existing_hashes |-> st.existing_hashes \cup {h.value},
                     appended |-> st.appended + 1],
                    postings, i + 1, today_str)

\* upsert_rows(worksheet, postings, added_at=added_at)
upsert_rows(all_values, postings, added_at) ==
  LET today_str == str_int(IF added_at /= None THEN added_at[1] ELSE Today)
  IN  upsert_loop([rows |-> all_values,
                   existing_hashes |-> collect_hashes(all_values),
                   appended |-> 0],
                  postings, 1, today_str)

(***************************************************************************)
(* Inputs of the deduplicator.                                             *)
(***************************************************************************)
MaxBatch == 2

SweIntern == <<"S","W","E"," ","I","n","t","e","r","n">>
SweInternVariant == <<" ","s","w","e"," ","i","n","t","e","r","n"," ">>
Acme == <<"A","c","m","e">>
AcmeVariant == <<"A","C","M","E"," "," ">>
NewYork == <<"N","e","w"," ","Y","o","r","k",","," ","N","Y">>
UrlJob1 == <<"h","t","t","p","s",":","/","/","e","x",".","c","o","m","/","1">>
UrlJob1Variant == <<"H","T","T","P","S",":","/","/","E","X",".","c","o","m","/","1"," ">>
UrlJob2 == <<"h","t","t","p","s",":","/","/","e","x",".","c","o","m","/","2">>

DedupPostings ==
  { JobPosting([title |-> SweIntern, company |-> Acme, location |-> NewYork,
                posting_url |-> UrlJob1]),
    JobPosting([title |-> SweInternVariant, company |-> AcmeVariant,
                location |-> NewYork, posting_url |-> UrlJob1Variant]),
    JobPosting([title |-> SweIntern, company |-> Acme, location |-> NewYork,
                posting_url |-> UrlJob2]) }

\* The identity of a posting as section 3 of the specification defines it:
\* (title, company, posting_url), case and whitespace normalized.
Identity(posting) ==
  <<lower(strip(posting.title)), lower(strip(posting.company)),
    lower(strip(posting.posting_url))>>

\* The fingerprint the specification gives a posting.
Fingerprint(posting) == sha256_hexdigest(join(_SEP, Identity(posting)))

\* Hashes a persisted set may hold: fingerprints of postings and one other.
PersistedHashes ==
  { Fingerprint(posting) : posting \in DedupPostings }
    \cup { sha256_hexdigest(<<"x">>) }

\* The lists over S of length at most n
RECURSIVE ListsUpTo(_, _)
ListsUpTo(S, n) ==
  IF n = 0 THEN { <<>> }
  ELSE ListsUpTo(S, n - 1)
         \cup { Append(l, x) : l \in { m \in ListsUpTo(S, n - 1) : Len(m) = n - 1 },
                               x \in S }

Batches == ListsUpTo(DedupPostings, MaxBatch)

NoCall == [op |-> "none"]

VARIABLES
  seen,   \* DuplicateFilter._seen
  snap,   \* the last value hashes() returned, with the set it was taken of
  call,   \* the last call on the filter: its argument and outcome
  prev    \* the call before it

VARIABLES
  kw,          \* the keyword arguments a posting is constructed from
  subject,     \* the posting under examination, None before it is constructed
  other,       \* a second posting, for claims that relate two
  loc_filter,  \* the LocationFilter in use
  result       \* the last function applied and what it returned

dedupVars == <<seen, snap, call, prev>>

VARIABLES
  run_args,      \* cmd_run: the parsed command line
  run_results,   \* cmd_run: raw_results, what the search source returned
  run_index,     \* cmd_run: the place in raw_results of the next result
  run_postings,  \* cmd_run: postings, the list given to _print_summary
  run_seen,      \* cmd_run: dup_filter._seen
  run_pc,        \* cmd_run: where control is
  run_step       \* cmd_run: the last loop iteration and how it ended

VARIABLES
  probe          \* check_active: what session.get(url) did

VARIABLES
  sheet,         \* the rows of the worksheet, as get_all_values() gives them
  sheet_call     \* the last call on the worksheet: its writes and outcome

VARIABLES
  fetch,         \* one call of fetch on a search source: its locals
  search         \* one call of BraveSearchSource._search: its locals

ioVars == <<sheet, sheet_call, fetch, search>>

fnVars == <<kw, subject, other, loc_filter, result>>

runVars ==
  <<run_args, run_results, run_index, run_postings, run_seen, run_pc, run_step>>

vars ==
  <<seen, snap, call, prev, kw, subject, other, loc_filter, result,
    run_args, run_results, run_index, run_postings, run_seen, run_pc, run_step,
    probe, sheet, sheet_call, fetch, search>>

NoResult == [op |-> "none"]

DedupIdle == seen = {} /\ snap = None /\ call = NoCall /\ prev = NoCall

FnIdle ==
  /\ kw = None
  /\ subject = None
  /\ other = None
  /\ loc_filter = None
  /\ result = NoResult

ActiveIdle == probe = None

SheetIdle ==
  /\ sheet = <<>>
  /\ sheet_call = NoCall

SourceIdle ==
  /\ fetch = [pc |-> "none"]
  /\ search = [pc |-> "none"]

IoIdle == SheetIdle /\ SourceIdle

NoStep == [stage |-> "none"]

RunIdle ==
  /\ run_args = None
  /\ run_results = <<>>
  /\ run_index = 1
  /\ run_postings = <<>>
  /\ run_seen = {}
  /\ run_pc = "idle"
  /\ run_step = NoStep

(***************************************************************************)
(* The deduplicator as a state machine: a filter seeded at construction,   *)
(* then any sequence of is_new, filter_new and hashes calls.               *)
(***************************************************************************)
InitDedup ==
  /\ \E initial_hashes \in {None} \cup { Some(s) : s \in SUBSET PersistedHashes } :
       seen = DuplicateFilter(initial_hashes)
  /\ snap = None
  /\ call = NoCall
  /\ prev = NoCall
  /\ FnIdle
  /\ RunIdle
  /\ ActiveIdle
  /\ IoIdle

IsNew ==
  \E posting \in DedupPostings :
    LET r == is_new(seen, posting)
    IN  /\ seen' = r.seen
        /\ call' = [op |-> "is_new", arg |-> posting, before |-> seen,
                    raised |-> r.raised, ret |-> r.ret]
        /\ prev' = call
        /\ UNCHANGED <<snap, fnVars, runVars, probe, ioVars>>

FilterNew ==
  \E postings \in Batches :
    LET r == filter_new(seen, postings)
    IN  /\ seen' = r.seen
        /\ call' = [op |-> "filter_new", arg |-> postings, before |-> seen,
                    raised |-> r.raised, ret |-> r.ret]
        /\ prev' = call
        /\ UNCHANGED <<snap, fnVars, runVars, probe, ioVars>>

Hashes ==
  /\ snap' = Some([returned |-> hashes(seen), taken_of |-> seen])
  /\ call' = [op |-> "hashes"]
  /\ prev' = call
  /\ UNCHANGED <<seen, fnVars, runVars, probe, ioVars>>

NextDedup == IsNew \/ FilterNew \/ Hashes

SpecDedup == InitDedup /\ [][NextDedup]_vars

(***************************************************************************)
(* compute_hash applied to two postings that differ or agree in each       *)
(* field.                                                                  *)
(***************************************************************************)
DataIntern == <<"D","a","t","a"," ","I","n","t","e","r","n">>
Bolt == <<"B","o","l","t">>
SomeDescription == <<"W","e"," ","b","u","i","l","d"," ","t","h","i","n","g","s",".">>
Austin == <<"A","u","s","t","i","n">>

HashPostings ==
  { JobPosting([title |-> t, company |-> c, location |-> NewYork,
                posting_url |-> u, description |-> d, date_posted |-> dp[1],
                date_posted_confidence |-> dp[2]]) :
      t \in {SweIntern, SweInternVariant, DataIntern},
      c \in {Acme, AcmeVariant, Bolt},
      u \in {UrlJob1, UrlJob1Variant, UrlJob2},
      d \in {<<>>, SomeDescription},
      dp \in {<<None, "unknown">>, <<Some(3), "exact">>} }

InitHash ==
  /\ subject \in { Some(x) : x \in HashPostings }
  /\ other \in { Some(x) : x \in HashPostings }
  /\ kw = None
  /\ loc_filter = None
  /\ result = NoResult
  /\ DedupIdle
  /\ IoIdle
  /\ RunIdle
  /\ ActiveIdle

ComputeHash ==
  /\ result = NoResult
  /\ result' = [op |-> "compute_hash",
                of_posting |-> compute_hash(subject[1]),
                of_other |-> compute_hash(other[1])]
  /\ UNCHANGED <<kw, subject, other, loc_filter, dedupVars, runVars, probe, ioVars>>

NextHash == ComputeHash

SpecHash == InitHash /\ [][NextHash]_vars

(***************************************************************************)
(* A posting is constructed and a location filter applied to it.           *)
(***************************************************************************)
Remote == <<"R","e","m","o","t","e">>
RemoteUpper == <<"R","E","M","O","T","E">>
RemoteNewYork == <<"R","e","m","o","t","e"," ","/"," ","N","e","w"," ","Y","o","r","k">>
AustinPadded == <<" ","A","u","s","t","i","n",","," ","T","X"," ">>
Unknown == <<"U","n","k","n","o","w","n">>
LowerNewYork == <<"n","e","w"," ","y","o","r","k">>
UpperNY == <<"N","Y">>
Boston == <<"B","o","s","t","o","n">>

LocationKwargs ==
  { [title |-> SweIntern, company |-> Acme, location |-> l,
     posting_url |-> UrlJob1] :
      l \in {Remote, RemoteUpper, RemoteNewYork, NewYork, AustinPadded,
             Unknown, <<>>} }
  \cup
  { [title |-> SweIntern, company |-> Acme, location |-> l,
     posting_url |-> UrlJob1, is_remote |-> r] :
      l \in {Remote, RemoteUpper, RemoteNewYork, NewYork, AustinPadded,
             Unknown, <<>>},
      r \in BOOLEAN }

LocationFilters ==
  { LocationFilter([include_remote |-> r]) : r \in BOOLEAN }
  \cup
  { LocationFilter([allowed_locations |-> a, include_remote |-> r]) :
      a \in { <<LowerNewYork>>, <<Austin, UpperNY>>, <<Remote>>, <<Boston>>,
              <<NewYork, Austin>> },
      r \in BOOLEAN }

InitLocation ==
  /\ kw \in { Some(k) : k \in LocationKwargs }
  /\ loc_filter \in { Some(f) : f \in LocationFilters }
  /\ subject = None
  /\ other = None
  /\ result = NoResult
  /\ DedupIdle
  /\ IoIdle
  /\ RunIdle
  /\ ActiveIdle

\* posting = JobPosting(**kw)
Construct ==
  /\ subject = None
  /\ subject' = Some(JobPosting(kw[1]))
  /\ UNCHANGED <<kw, other, loc_filter, result, dedupVars, runVars, probe, ioVars>>

\* loc_filter.matches(posting)
Matches ==
  /\ subject /= None
  /\ result = NoResult
  /\ result' = [op |-> "matches", ret |-> matches(loc_filter[1], subject[1])]
  /\ UNCHANGED <<kw, subject, other, loc_filter, dedupVars, runVars, probe, ioVars>>

\* cmd_run: category = categorize(posting), then
\* posting = posting.model_copy(update={"category": category})
CategorizeCopy ==
  /\ subject /= None
  /\ subject[1].category = None
  /\ subject' = Some(model_copy(subject[1],
                                [category |-> Some(categorize(subject[1]))]))
  /\ UNCHANGED <<kw, other, loc_filter, result, dedupVars, runVars, probe, ioVars>>

NextLocation == Construct \/ Matches \/ CategorizeCopy

SpecLocation == InitLocation /\ [][NextLocation]_vars

(***************************************************************************)
(* A posting is constructed and classified: categorize, score_track.       *)
(***************************************************************************)
DataEngineerIntern == <<"D","a","t","a"," ","E","n","g","i","n","e","e","r"," ","I","n","t","e","r","n">>
ProductManagerIntern == <<"P","r","o","d","u","c","t"," ","M","a","n","a","g","e","r"," ","I","n","t","e","r","n">>
SoftwareEngineerIntern == <<"S","o","f","t","w","a","r","e"," ","E","n","g","i","n","e","e","r"," ","I","n","t","e","r","n">>
SecurityAnalystUpper == <<"S","E","C","U","R","I","T","Y"," ","A","N","A","L","Y","S","T">>
SalesAssociate == <<"S","a","l","e","s"," ","A","s","s","o","c","i","a","t","e">>
Real == <<"R","e","a","l">>
MarketingDataAnalyst == <<"M","a","r","k","e","t","i","n","g"," ","D","a","t","a"," ","A","n","a","l","y","s","t">>
BackendDescription == <<"B","u","i","l","d"," ","b","a","c","k","e","n","d"," ","A","P","I","s"," ","i","n"," ","P","y","t","h","o","n">>
NegativeDescription == <<"e","s","t","a","t","e"," ","s","a","l","e","s",","," ","r","e","t","a","i","l"," ","s","t","o","r","e"," ","a","n","d"," ","M","a","r","k","e","t","i","n","g">>
MixedDescription == <<"S","e","c","u","r","i","t","y"," ","a","n","a","l","y","s","t"," ","f","o","r"," ","t","h","e"," ","h","e","l","p"," ","d","e","s","k",","," ","d","a","t","a"," ","s","c","i","e","n","c","e">>
SoftwareEngineer == <<"S","o","f","t","w","a","r","e"," ","E","n","g","i","n","e","e","r">>

TextKwargs ==
  { [title |-> t, company |-> Acme, location |-> NewYork,
     posting_url |-> UrlJob1, description |-> d] :
      t \in {DataEngineerIntern, ProductManagerIntern, SoftwareEngineerIntern,
             SecurityAnalystUpper, SalesAssociate, Real, MarketingDataAnalyst,
             <<>>},
      d \in {<<>>, BackendDescription, NegativeDescription, MixedDescription,
             SoftwareEngineer} }

InitText ==
  /\ kw \in { Some(k) : k \in TextKwargs }
  /\ subject = None
  /\ other = None
  /\ loc_filter = None
  /\ result = NoResult
  /\ DedupIdle
  /\ IoIdle
  /\ RunIdle
  /\ ActiveIdle

\* categorize(posting)
Categorize ==
  /\ subject /= None
  /\ result = NoResult
  /\ result' = [op |-> "categorize", ret |-> categorize(subject[1])]
  /\ UNCHANGED <<kw, subject, other, loc_filter, dedupVars, runVars, probe, ioVars>>

\* score_track(posting, track)
ScoreTrack ==
  /\ subject /= None
  /\ result = NoResult
  /\ \E track \in { Track[i] : i \in DOMAIN Track } :
       result' = [op |-> "score_track", track |-> track,
                  ret |-> score_track(subject[1], track)]
  /\ UNCHANGED <<kw, subject, other, loc_filter, dedupVars, runVars, probe, ioVars>>

\* The keyword arguments track_match_label is called with
LabelKwargs == {<<>>} \cup { [min_score |-> m] : m \in {0, 1, 10} }

\* track_match_label(posting, min_score=...), called once or again
TrackMatchLabel ==
  /\ subject /= None
  /\ result.op \in {"none", "track_match_label"}
  /\ \E kwargs \in LabelKwargs :
       /\ result.op = "track_match_label" => kwargs = result.kwargs
       /\ result' = [op |-> "track_match_label", kwargs |-> kwargs,
                     ret |-> track_match_label(subject[1], kwargs),
                     calls |-> IF result.op = "none" THEN 1 ELSE 2,
                     before |-> IF result.op = "none" THEN None
                                ELSE Some(result.ret)]
  /\ UNCHANGED <<kw, subject, other, loc_filter, dedupVars, runVars, probe, ioVars>>

NextText == Construct \/ Categorize \/ ScoreTrack \/ TrackMatchLabel

SpecText == InitText /\ [][NextText]_vars

(***************************************************************************)
(* cmd_run: build the source and fetch, then one loop iteration for each   *)
(* search result, then the summary.                                        *)
(***************************************************************************)
MaxResults == 2
MaxDay == 3
MaxWithinDays == 2

Brave == <<"b","r","a","v","e">>
Snippet == <<"A","p","p","l","y"," ","n","o","w">>
NotADate == <<"l","a","s","t"," ","w","e","e","k">>

\* RawSearchResult(url, title, snippet)
RawSearchResult(url, title, snippet) ==
  [url |-> url, title |-> title, snippet |-> snippet]

SearchResults ==
  { RawSearchResult(UrlJob1, SweIntern, Snippet),
    RawSearchResult(UrlJob2, DataIntern, <<>>) }

RunArgs ==
  [locations : {<<>>, <<NewYork>>},
   no_remote : BOOLEAN,
   categories : {<<>>, <<"software">>},
   posted_within_days : {None} \cup { Some(n) : n \in 0..MaxWithinDays }]

DatePostedStrings ==
  {None, Some([isoformat |-> FALSE, text |-> NotADate])}
    \cup { Some([isoformat |-> TRUE, day |-> d]) : d \in 0..MaxDay }

Schemas ==
  [title : {None, Some(SoftwareEngineerIntern)},
   hiringOrganization : {Acme},
   jobLocation : {NewYork, Remote},
   description : {Some(BackendDescription)},
   datePosted : DatePostedStrings,
   url : {None}]

Responses ==
  { [raised |-> e] : e \in {"Timeout", "HTTPError", "ConnectionError"} }
    \cup { [raised |-> NoExc, schema |-> page] :
             page \in {None} \cup { Some(schema) : schema \in Schemas } }

InitRun ==
  /\ run_args \in { Some(a) : a \in RunArgs }
  /\ run_results = <<>>
  /\ run_index = 1
  /\ run_postings = <<>>
  /\ run_seen = {}
  /\ run_pc = "start"
  /\ run_step = NoStep
  /\ DedupIdle
  /\ IoIdle
  /\ FnIdle
  /\ ActiveIdle

\* cmd_run up to the loop: _build_source, source.fetch, the filters
RunStart ==
  /\ run_pc = "start"
  /\ \E built \in BOOLEAN, fetched \in ListsUpTo(SearchResults, MaxResults) :
       IF ~built
         THEN /\ run_pc' = "return 1"
              /\ UNCHANGED <<run_results, run_seen>>
         ELSE /\ run_results' = fetched
              /\ IF fetched = <<>>
                   THEN /\ run_pc' = "return 0"
                        /\ UNCHANGED run_seen
                   ELSE /\ run_pc' = "loop"
                        /\ run_seen' = DuplicateFilter(None)
  /\ UNCHANGED <<run_args, run_index, run_postings, run_step, dedupVars, fnVars, probe, ioVars>>

\* One iteration of "for result in raw_results"
RunLoopBody ==
  /\ run_pc = "loop"
  /\ run_index <= Len(run_results)
  /\ \E response \in Responses :
       LET args == run_args[1]
           search_result == run_results[run_index]
           ext == fetch_and_extract(response, search_result.url)
           posting == build_posting(ext, search_result, Brave)
           cutoff == cutoff_of(args)
           filter == LocationFilter([allowed_locations |-> args.locations,
                                     include_remote |-> ~args.no_remote])
           new == is_new(run_seen, posting)
           category == categorize(posting)
           categorized == model_copy(posting, [category |-> Some(category)])
           step(stage, made) ==
             [stage |-> stage, posting |-> made, blocked |-> ext.blocked,
              search_result |-> search_result, response |-> response,
              ext |-> ext]
           continue(stage) ==
             /\ run_step' = step(stage, posting)
             /\ run_index' = run_index + 1
             /\ UNCHANGED <<run_postings, run_pc>>
       IN  IF date_excluded(cutoff, posting)
             THEN continue("date") /\ UNCHANGED run_seen
           ELSE IF ~matches(filter, posting)
             THEN continue("location") /\ UNCHANGED run_seen
           ELSE IF new.raised /= NoExc
             THEN /\ run_step' = step("raised", posting)
                  /\ run_pc' = new.raised
                  /\ UNCHANGED <<run_index, run_postings, run_seen>>
           ELSE IF ~new.ret
             THEN continue("duplicate") /\ run_seen' = new.seen
           ELSE IF args.categories /= <<>>
                   /\ \A i \in DOMAIN args.categories :
                         args.categories[i] /= category
             THEN continue("category") /\ run_seen' = new.seen
           ELSE /\ run_step' = step("appended", categorized)
                /\ run_postings' = Append(run_postings, categorized)
                /\ run_index' = run_index + 1
                /\ run_seen' = new.seen
                /\ UNCHANGED run_pc
  /\ UNCHANGED <<run_args, run_results, dedupVars, fnVars, probe, ioVars>>

\* cmd_run after the loop: _print_summary(postings), return 0
RunSummary ==
  /\ run_pc = "loop"
  /\ run_index > Len(run_results)
  /\ run_pc' = "return 0"
  /\ UNCHANGED <<run_args, run_results, run_index, run_postings, run_seen,
                 run_step, dedupVars, fnVars, probe, ioVars>>

NextRun == RunStart \/ RunLoopBody \/ RunSummary

SpecRun == InitRun /\ [][NextRun]_vars

(***************************************************************************)
(* score_track on a pair of postings: one whose title is a strong keyword  *)
(* of a track, one with the same keyword as its description.               *)
(***************************************************************************)
Intern == <<"I","n","t","e","r","n">>

NonUniversalTracks == { Track[i] : i \in DOMAIN Track } \ {"all"}

StrongKeywords(track) ==
  { _TRACK_KEYWORDS[track].strong[i] : i \in DOMAIN _TRACK_KEYWORDS[track].strong }

\* text holds a keyword of track, strong or weak
HasKeywordOf(track, text) ==
  \/ \E i \in DOMAIN _TRACK_KEYWORDS[track].strong :
        Contains(_TRACK_KEYWORDS[track].strong[i], text)
  \/ \E i \in DOMAIN _TRACK_KEYWORDS[track].weak :
        Contains(_TRACK_KEYWORDS[track].weak[i], text)

InitStrong ==
  /\ \E track \in NonUniversalTracks :
       \E k \in StrongKeywords(track) :
         \E title \in {<<>>, Intern, SalesAssociate, SoftwareEngineerIntern,
                        SecurityAnalystUpper} :
           /\ subject = Some(JobPosting([title |-> k, company |-> Acme,
                                         location |-> NewYork,
                                         posting_url |-> UrlJob1]))
           /\ other = Some(JobPosting([title |-> title, company |-> Acme,
                                       location |-> NewYork,
                                       description |-> k,
                                       posting_url |-> UrlJob2]))
  /\ kw = None
  /\ loc_filter = None
  /\ result = NoResult
  /\ DedupIdle
  /\ IoIdle
  /\ RunIdle
  /\ ActiveIdle

\* score_track(subject, track) and score_track(other, track), for a track
\* that has subject's title among its strong keywords and no keyword in
\* other's title
ScoreTrackPair ==
  /\ result = NoResult
  /\ \E track \in NonUniversalTracks :
       /\ subject[1].title \in StrongKeywords(track)
       /\ ~HasKeywordOf(track, lower(other[1].title))
       /\ result' = [op |-> "score_track_pair", track |-> track,
                     in_title |-> score_track(subject[1], track),
                     in_description |-> score_track(other[1], track)]
  /\ UNCHANGED <<kw, subject, other, loc_filter, dedupVars, runVars, probe, ioVars>>

NextStrong == ScoreTrackPair

SpecStrong == InitStrong /\ [][NextStrong]_vars

(***************************************************************************)
(* check_active: one probe of a posting's URL, then the verdict.           *)
(***************************************************************************)
ConnectionRefused == <<"c","o","n","n","e","c","t","i","o","n"," ","r","e","f","u","s","e","d">>

Bodies ==
  { <<>>,
    <<"A","p","p","l","y"," ","N","o","w"," ","t","o"," ","j","o","i","n"," ","u","s">>,
    <<"T","h","i","s"," ","P","o","s","i","t","i","o","n"," ","H","a","s"," ","B","e","e","n"," ","F","i","l","l","e","d",".">>,
    <<"J","o","b"," ","c","l","o","s","e","d","."," ","A","p","p","l","y"," ","n","o","w">>,
    <<"r","o","l","e"," ","h","a","s"," ","b","e","e","n"," ","f","i","l","l","e","d",";"," ","j","o","b"," ","c","l","o","s","e","d">>,
    <<"T","h","e"," ","p","o","s","i","t","i","o","n"," ","i","s"," ","n","o"," ","l","o","n","g","e","r"," ","a","v","a","i","l","a","b","l","e">>,
    <<"G","r","e","a","t"," ","i","n","t","e","r","n","s","h","i","p">>,
    <<"<","b","u","t","t","o","n"," ","t","y","p","e","=","\"","s","u","b","m","i","t","\"",">">> }

\* What session.get can do: raise, or return a response
Probes ==
  { [raised |-> e, message |-> ConnectionRefused] :
      e \in {"Timeout", "ReadTimeout", "ConnectionError", "RequestException",
             "Exception"} }
    \cup
  { [raised |-> NoExc, status_code |-> code, text |-> body] :
      code \in 100..599, body \in Bodies }

InitActive ==
  /\ probe \in { Some(p) : p \in Probes }
  /\ DedupIdle
  /\ IoIdle
  /\ FnIdle
  /\ RunIdle

\* check_active(url, session)
CheckActive ==
  /\ probe /= None
  /\ result = NoResult
  /\ LET outcome == check_active(probe[1])
     IN  result' = [op |-> "check_active", raised |-> outcome.raised,
                    ret |-> outcome.ret]
  /\ UNCHANGED <<kw, subject, other, loc_filter, dedupVars, runVars, probe, ioVars>>

NextActive == CheckActive

SpecActive == InitActive /\ [][NextActive]_vars

(***************************************************************************)
(* A posting is constructed from texts with whitespace around them.        *)
(***************************************************************************)
Blank == <<" "," "," ">>

\* A text as it is, with whitespace on both sides, and with a tab and a
\* newline at its ends
Padded(text) ==
  { text,
    <<" ", " ">> \o text \o <<" ">>,
    <<"\t">> \o text \o <<"\n">> }

StripKwargs ==
  [title : Padded(SweIntern) \cup {Blank},
   company : Padded(Acme),
   location : Padded(NewYork),
   description : Padded(BackendDescription) \cup {Blank},
   posting_url : {UrlJob1}]

InitStrip ==
  /\ kw \in { Some(k) : k \in StripKwargs }
  /\ subject = None
  /\ other = None
  /\ loc_filter = None
  /\ result = NoResult
  /\ DedupIdle
  /\ IoIdle
  /\ RunIdle
  /\ ActiveIdle

NextStrip == Construct

SpecStrip == InitStrip /\ [][NextStrip]_vars

(***************************************************************************)
(* The worksheet: ensure_header and upsert_rows on it.                     *)
(***************************************************************************)
MaxDataRows == 1

Abc == <<"a","b","c">>
AbcPadded == <<" ","a","b","c"," ">>
Wrong == <<"W","r","o","n","g">>
Header == <<"H","e","a","d","e","r">>
Row == <<"R","o","w">>
Day1 == <<"2","0","2","4","-","0","1","-","0","1">>

\* A data row as long as the legacy header, its last cell the hash
DataRow(h) == <<Day1>> \o [c \in 1..(_HASH_COL_INDEX - 1) |-> <<>>] \o <<h>>

\* First rows a worksheet may have: COLUMNS, each of its prefixes, the empty
\* one included, and headers that are neither
Headers ==
  { SubSeq(COLUMNS, 1, n) : n \in 0..Len(COLUMNS) }
    \cup { <<Wrong, Header, Row>>,
           COLUMNS \o <<<<>>>>,
           SubSeq(COLUMNS, 1, 11) \o <<<<>>, <<>>, <<>>>>,
           [COLUMNS EXCEPT ![1] = COLUMNS[2], ![2] = COLUMNS[1]],
           SubSeq(COLUMNS, 2, 5) }

Worksheets ==
  {<<>>}
    \cup { <<header>> \o data :
             header \in Headers,
             data \in ListsUpTo({DataRow(Abc), DataRow(AbcPadded),
                                 DataRow(<<>>), <<Day1>>}, MaxDataRows) }

InitSheet ==
  /\ sheet \in Worksheets
  /\ sheet_call = NoCall
  /\ SourceIdle
  /\ DedupIdle
  /\ FnIdle
  /\ RunIdle
  /\ ActiveIdle

\* ensure_header(worksheet)
EnsureHeader ==
  LET outcome == ensure_header(sheet)
  IN  /\ sheet' = outcome.rows
      /\ sheet_call' = [op |-> "ensure_header", before |-> sheet,
                        raised |-> outcome.raised, writes |-> outcome.writes]
      /\ UNCHANGED <<dedupVars, fnVars, runVars, probe, fetch, search>>

\* upsert_rows(worksheet, postings, added_at=added_at)
UpsertRows ==
  \E postings \in Batches, added_at \in {None, Some(1)} :
    LET outcome == upsert_rows(sheet, postings, added_at)
    IN  /\ sheet' = outcome.rows
        /\ sheet_call' = [op |-> "upsert_rows", before |-> sheet,
                          postings |-> postings, raised |-> outcome.raised,
                          ret |-> outcome.ret]
        /\ UNCHANGED <<dedupVars, fnVars, runVars, probe, fetch, search>>

NextSheet == EnsureHeader \/ UpsertRows

SpecSheet == InitSheet /\ [][NextSheet]_vars

(***************************************************************************)
(* sources/google_search.py and sources/brave_search.py                    *)
(***************************************************************************)
_DEFAULT_TERMS ==
  <<<<"i","n","t","e","r","n","s","h","i","p">>,
    <<"i","n","t","e","r","n">>,
    <<"c","o","-","o","p">>>>

\* build_queries(locations, keywords, categories), terms left at None
build_queries(locations, keywords, categories) ==
  LET effective_terms == SubSeq(_DEFAULT_TERMS, 1, 2)
      base == join(<<" ">>, keywords \o categories \o effective_terms)
  IN  IF locations = <<>> THEN <<base>>
      ELSE [i \in DOMAIN locations |-> base \o <<" ">> \o locations[i]]

\* _PAGE_SIZE of each source module
_PAGE_SIZE == [google |-> 10, brave |-> 20]

_MAX_START == 91

\* _paginate: start = 1 in the Google source, offset = 0 in the Brave one
first_page == [google |-> 1, brave |-> 0]

\* The while condition of _paginate
paginate_continues(source, max_results, items, start) ==
  /\ source = "google" => start <= _MAX_START
  /\ Len(items) < max_results

\* items[:n]
slice_to(items, n) ==
  IF n >= 0
    THEN SubSeq(items, 1, IF n < Len(items) THEN n ELSE Len(items))
    ELSE SubSeq(items, 1, Len(items) + n)

\* (item.get(key) or "").strip()
item_text(value) == strip(IF value = None THEN <<>> ELSE value[1])

\* "for item in self._paginate(q)" of fetch, from item i on, over the
\* items _paginate returned; st holds results and seen_urls.
\* This variant appends a URL already seen.
RECURSIVE collect_without_seen(_, _, _, _)
collect_without_seen(st, items, i, max_results) ==
  IF i > Len(items) THEN st
  ELSE LET url == item_text(items[i].url)
           added == [results |-> Append(st.results,
                                        RawSearchResult(
                                          url, item_text(items[i].title),
                                          item_text(items[i].description))),
                     seen_urls |-> st.seen_urls \cup {url}]
       IN  IF url = <<>>
             THEN collect_without_seen(st, items, i + 1, max_results)
           ELSE IF Len(added.results) >= max_results THEN added
           ELSE collect_without_seen(added, items, i + 1, max_results)

\* "for item in self._paginate(q)" of fetch, from item i on, over the
\* items _paginate returned; st holds results and seen_urls.  The URL is
\* the item's "link" in the Google source and its "url" in the Brave one,
\* the snippet its "snippet" and its "description".
RECURSIVE collect(_, _, _, _)
collect(st, items, i, max_results) ==
  IF i > Len(items) THEN st
  ELSE LET url == item_text(items[i].url)
           added == [results |-> Append(st.results,
                                        RawSearchResult(
                                          url, item_text(items[i].title),
                                          item_text(items[i].description))),
                     seen_urls |-> st.seen_urls \cup {url}]
       IN  IF url = <<>> \/ url \in st.seen_urls
             THEN collect(st, items, i + 1, max_results)
           ELSE IF Len(added.results) >= max_results THEN added
           ELSE collect(added, items, i + 1, max_results)

_MAX_RETRIES == 3

_INITIAL_BACKOFF == 1

\* The backoff growing by the initial backoff each time
next_backoff_linear(backoff) == backoff + _INITIAL_BACKOFF

\* backoff *= 2
next_backoff(backoff) == backoff * 2

\* data.get("web", {}).get("results", [])
web_results(data) ==
  IF data.web = None THEN <<>>
  ELSE IF data.web[1].results = None THEN <<>>
  ELSE data.web[1].results[1]

(***************************************************************************)
(* One fetch on a search source.                                           *)
(***************************************************************************)
MaxFetch == 3

UrlJob3 == <<"h","t","t","p","s",":","/","/","e","x",".","c","o","m","/","3">>
UrlJob1Padded == <<" ","h","t","t","p","s",":","/","/","e","x",".","c","o","m","/","1"," ">>

\* An item of an API response; url stands for "link" in a Google item
Item(url) == [url |-> url, title |-> Some(SweIntern), description |-> Some(Snippet)]

ItemJob1 == Item(Some(UrlJob1))
ItemJob2 == Item(Some(UrlJob2))
ItemJob3 == Item(Some(UrlJob3))

\* A page with as many items as the source asks for
FullPage(source) ==
  [i \in 1.._PAGE_SIZE[source] |-> IF i % 2 = 1 THEN ItemJob1 ELSE ItemJob2]

\* What one _search call may return
ApiBatches(source) ==
  { <<>>,
    <<ItemJob1>>,
    <<ItemJob1, ItemJob2>>,
    <<ItemJob1, ItemJob1, ItemJob1, ItemJob3>>,
    <<ItemJob2, ItemJob3>>,
    <<ItemJob3, ItemJob2, ItemJob1>>,
    <<Item(None), Item(Some(<<" ">>)), ItemJob1>>,
    <<Item(Some(UrlJob1Padded)), ItemJob1, ItemJob2>>,
    FullPage(source) }

InitFetch ==
  /\ fetch \in
       { [pc |-> "start", source |-> source, max_results |-> max_results,
          locations |-> locations, queries |-> <<>>, q |-> 1, items |-> <<>>,
          start |-> 0, results |-> <<>>, seen_urls |-> {}, log |-> <<>>] :
           source \in {"google", "brave"},
           max_results \in (-1..MaxFetch) \cup {_PAGE_SIZE.brave + 1},
           locations \in {<<>>, <<NewYork>>, <<NewYork, Austin>>} }
  /\ search = [pc |-> "none"]
  /\ SheetIdle
  /\ DedupIdle
  /\ FnIdle
  /\ RunIdle
  /\ ActiveIdle

\* fetch up to its loop: queries = build_queries(...)
FetchBegin ==
  /\ fetch.pc = "start"
  /\ fetch' = [fetch EXCEPT
                 !.queries = build_queries(fetch.locations, <<>>, <<>>),
                 !.pc = "query"]
  /\ UNCHANGED <<dedupVars, fnVars, runVars, probe, sheet, sheet_call, search>>

\* "for q in queries": the break when results is full, the return after the
\* loop, or the entry into _paginate(q)
FetchQuery ==
  /\ fetch.pc = "query"
  /\ IF \/ fetch.q > Len(fetch.queries)
        \/ Len(fetch.results) >= fetch.max_results
       THEN fetch' = [fetch EXCEPT !.pc = "returned"]
       ELSE fetch' = [fetch EXCEPT !.items = <<>>,
                                   !.start = first_page[fetch.source],
                                   !.pc = "search"]
  /\ UNCHANGED <<dedupVars, fnVars, runVars, probe, sheet, sheet_call, search>>

\* One turn of the while loop of _paginate, with what _search returned, and,
\* when the loop ends, "for item in" of fetch over the items it returns
FetchSearch ==
  /\ fetch.pc = "search"
  /\ \E batch \in ApiBatches(fetch.source) :
       LET items == fetch.items \o batch
           start == fetch.start + _PAGE_SIZE[fetch.source]
           logged == Append(fetch.log, [q |-> fetch.q, batch |-> batch])
           collected == collect([results |-> fetch.results,
                                 seen_urls |-> fetch.seen_urls],
                                slice_to(items, fetch.max_results), 1,
                                fetch.max_results)
       IN  IF /\ batch /= <<>>
              /\ Len(batch) >= _PAGE_SIZE[fetch.source]
              /\ paginate_continues(fetch.source, fetch.max_results, items,
                                     start)
             THEN fetch' = [fetch EXCEPT !.items = items, !.start = start,
                                         !.log = logged]
             ELSE fetch' = [fetch EXCEPT !.items = <<>>,
                                         !.results = collected.results,
                                         !.seen_urls = collected.seen_urls,
                                         !.q = fetch.q + 1,
                                         !.log = logged,
                                         !.pc = "query"]
  /\ UNCHANGED <<dedupVars, fnVars, runVars, probe, sheet, sheet_call, search>>

NextFetch == FetchBegin \/ FetchQuery \/ FetchSearch

SpecFetch == InitFetch /\ [][NextFetch]_vars

(***************************************************************************)
(* One request of the Brave source, with its retries.                      *)
(***************************************************************************)
\* What session.get may do: raise, or return a response
SearchResponses ==
  { [raised |-> e] : e \in {"Timeout", "ConnectionError"} }
    \cup { [raised |-> NoExc, status_code |-> code, data |-> [web |-> None]] :
             code \in {429, 404, 500} }
    \cup { [raised |-> NoExc, status_code |-> 200, data |-> data] :
             data \in { [web |-> None],
                        [web |-> Some([results |-> None])],
                        [web |-> Some([results |-> Some(<<ItemJob1>>)])],
                        [web |-> Some([results |->
                                         Some(<<ItemJob1, ItemJob2>>)])] } }

InitSearch ==
  /\ search \in
       { [pc |-> "attempt",
          params |-> [q |-> query, count |-> _PAGE_SIZE.brave,
                      offset |-> IF offset > 0 THEN Some(offset) ELSE None],
          attempt |-> 0, backoff |-> _INITIAL_BACKOFF, sleeps |-> <<>>,
          log |-> <<>>, ret |-> <<>>] :
           query \in { build_queries(<<NewYork, Austin>>, <<>>, <<>>)[i] :
                         i \in 1..2 },
           offset \in {0, _PAGE_SIZE.brave} }
  /\ fetch = [pc |-> "none"]
  /\ SheetIdle
  /\ DedupIdle
  /\ FnIdle
  /\ RunIdle
  /\ ActiveIdle

\* One turn of "for attempt in range(_MAX_RETRIES + 1)" of _search
SearchAttempt ==
  /\ search.pc = "attempt"
  /\ search.attempt <= _MAX_RETRIES
  /\ \E response \in SearchResponses :
       LET logged == Append(search.log, response)
           return(items) == [search EXCEPT !.log = logged, !.ret = items,
                                           !.pc = "returned"]
       IN  IF response.raised \in RequestExceptions
             THEN search' = return(<<>>)
           ELSE IF response.status_code = 429
             THEN IF search.attempt < _MAX_RETRIES
                    THEN search' =
                           [search EXCEPT
                              !.log = logged,
                              !.sleeps = Append(search.sleeps, search.backoff),
                              !.backoff = next_backoff(search.backoff),
                              !.attempt = search.attempt + 1]
                    ELSE search' = return(<<>>)
           ELSE IF response.status_code >= 400
             THEN search' = return(<<>>)
           ELSE search' = return(web_results(response.data))
  /\ UNCHANGED <<dedupVars, fnVars, runVars, probe, sheet, sheet_call, fetch>>

NextSearch == SearchAttempt

SpecSearch == InitSearch /\ [][NextSearch]_vars

(***************************************************************************)
(* Claims about the deduplicator.                                          *)
(***************************************************************************)
\* C1: is_new(p) returns true iff fingerprint(p) is not in the seen-set at
\* the moment of the call (seeded hashes count as seen), and a call that
\* returns true leaves fingerprint(p) in the seen-set.
C1_IsNewIffUnseen ==
  call.op = "is_new" =>
    /\ (call.raised = NoExc /\ call.ret)
          <=> (Fingerprint(call.arg) \notin call.before)
    /\ (call.raised = NoExc /\ call.ret) => Fingerprint(call.arg) \in seen

\* The postings of a batch that the specification's filter_new keeps: those
\* whose fingerprint was not seen before the call and that no earlier
\* posting of the batch shares, in input order.
FirstOccurrences(postings, before) ==
  SelectSeq([i \in DOMAIN postings |-> <<i, postings[i]>>],
            LAMBDA e :
              /\ Fingerprint(e[2]) \notin before
              /\ \A j \in 1..(e[1] - 1) :
                    Fingerprint(postings[j]) /= Fingerprint(e[2]))

\* C2: filter_new(postings) returns exactly the postings is_new accepts, in
\* their original relative order: of the postings of one batch that share a
\* fingerprint only the first, and none whose fingerprint was seen before.
C2_FilterNewKeepsFirstOccurrences ==
  call.op = "filter_new" =>
    /\ call.raised = NoExc
    /\ call.ret = [i \in DOMAIN FirstOccurrences(call.arg, call.before) |->
                     FirstOccurrences(call.arg, call.before)[i][2]]

\* C3: filter_new(L) followed by filter_new(L) on the same filter makes the
\* second call return the empty list.
C3_SecondFilterNewIsEmpty ==
  (prev.op = "filter_new" /\ call.op = "filter_new" /\ call.arg = prev.arg)
    => (call.raised = NoExc /\ call.ret = <<>>)

\* What the holder of an object returned by hashes() reads in it now.
Elements(obj) == IF obj.object = "self._seen" THEN seen ELSE obj.value

C4_HashEqualIffIdentityEqual ==
  result.op = "compute_hash" =>
    ((/\ result.of_posting.raised = NoExc
      /\ result.of_other.raised = NoExc
      /\ result.of_posting.value = result.of_other.value)
       <=> (Identity(subject[1]) = Identity(other[1])))

\* C6: matches(p) is include_remote when p.is_remote; otherwise true when
\* allowed_locations is empty; otherwise true iff the lower-cased location
\* contains a lower-cased allowed location.
C6_MatchesContract ==
  result.op = "matches" =>
    LET p == subject[1]
        f == loc_filter[1]
    IN  /\ p.is_remote => (result.ret <=> f.include_remote)
        /\ (~p.is_remote /\ Len(f.allowed_locations) = 0) => result.ret
        /\ (~p.is_remote /\ Len(f.allowed_locations) > 0) =>
              (result.ret <=>
                 \E i \in 1..Len(f.allowed_locations) :
                   Contains(lower(f.allowed_locations[i]), lower(p.location)))

\* C6 witness: a non-remote posting passes a filter with allowed locations
\* through a match that differs in letter case
C6_Witness ==
  /\ result.op = "matches"
  /\ result.ret
  /\ ~subject[1].is_remote
  /\ loc_filter[1].allowed_locations /= <<>>
  /\ \A i \in DOMAIN loc_filter[1].allowed_locations :
        ~Contains(loc_filter[1].allowed_locations[i], subject[1].location)

\* C7: a posting constructed with a location that contains "remote" in any
\* letter case gets exactly include_remote from matches, whatever
\* allowed_locations holds.
C7_RemoteLocationIsDispositive ==
  (result.op = "matches" /\ Contains(REMOTE, lower(kw[1].location)))
    => (result.ret <=> loc_filter[1].include_remote)

\* C7 witness: "Remote / New York", constructed without an explicit remote
\* flag, is excluded by a filter that allows New York but not remote
C7_Witness ==
  /\ result.op = "matches"
  /\ ~result.ret
  /\ kw[1].location = RemoteNewYork
  /\ "is_remote" \notin DOMAIN kw[1]
  /\ ~loc_filter[1].include_remote
  /\ \E i \in DOMAIN loc_filter[1].allowed_locations :
        Contains(lower(loc_filter[1].allowed_locations[i]),
                 lower(kw[1].location))

(***************************************************************************)
(* Claims about categorize and score_track.                                *)
(***************************************************************************)
\* The text categorize searches: the title, a space, the description,
\* lower-cased.
Haystack(p) == lower(p.title \o <<" ">> \o p.description)

\* The places in the registry of the categories with a keyword in text
Hits(text) ==
  { i \in DOMAIN _CATEGORY_KEYWORDS :
      \E k \in DOMAIN _CATEGORY_KEYWORDS[i].keywords :
        Contains(_CATEGORY_KEYWORDS[i].keywords[k], text) }

\* C9: categorize returns exactly one category: the first in registry order
\* (data, product, design, finance, marketing, software) with a keyword in
\* lower(title + " " + description), and other iff no category has one.
C9_CategorizeFirstMatch ==
  result.op = "categorize" =>
    LET hits == Hits(Haystack(subject[1]))
    IN  /\ result.ret \in Category
        /\ [i \in DOMAIN _CATEGORY_KEYWORDS |-> _CATEGORY_KEYWORDS[i].category]
              = <<"data", "product", "design", "finance", "marketing", "software">>
        /\ (result.ret = "other") <=> (hits = {})
        /\ hits /= {} =>
              /\ result.ret = _CATEGORY_KEYWORDS[CHOOSE i \in hits : \A j \in hits : i <= j].category
              /\ result.ret = "software" => hits = {6}

\* C9 witness: a posting with a software keyword and a keyword of an earlier
\* category is given the earlier category
C9_Witness ==
  /\ result.op = "categorize"
  /\ result.ret = "data"
  /\ {1, 6} \subseteq Hits(Haystack(subject[1]))

\* The keywords of a list that occur in text, by their place in the list
Occurring(keywords, text) ==
  { i \in DOMAIN keywords : Contains(keywords[i], text) }

\* The sum S of claim C10 for posting p and track t
RawScore(p, t) ==
  LET title == lower(p.title)
      desc == lower(p.description)
      strong == _TRACK_KEYWORDS[t].strong
      weak == _TRACK_KEYWORDS[t].weak
  IN  10 * Cardinality(Occurring(strong, title))
      + 5 * Cardinality(Occurring(strong, desc) \ Occurring(strong, title))
      + 3 * Cardinality(Occurring(weak, title))
      + 1 * Cardinality(Occurring(weak, desc) \ Occurring(weak, title))
      - 3 * Cardinality(Occurring(_NEGATIVE_KEYWORDS,
                                  title \o <<" ">> \o desc))

\* C10: on a non-universal track score_track is max(0, S): 10 per strong
\* keyword in the title, else 5 in the description; 3 per weak keyword in the
\* title, else 1 in the description; less 3 per negative keyword in
\* title + " " + description.
C10_ScoreTrackFormula ==
  (result.op = "score_track" /\ result.track /= "all") =>
    LET raw == RawScore(subject[1], result.track)
    IN  result.ret = (IF raw > 0 THEN raw ELSE 0)

\* C10 witness: a strong keyword in both title and description, counted
\* once at the title value, on a posting that scores above zero
C10_Witness ==
  /\ result.op = "score_track"
  /\ result.track = "swe"
  /\ result.ret = 10
  /\ LET strong == _TRACK_KEYWORDS["swe"].strong
     IN  Occurring(strong, lower(subject[1].title))
           \cap Occurring(strong, lower(subject[1].description)) /= {}

(***************************************************************************)
(* Claims about cmd_run.                                                   *)
(***************************************************************************)
\* C8: an iteration of cmd_run ends at the date filter, the posting
\* excluded, iff a cutoff is set, the confidence is exact, the date is
\* there, and the date is strictly before the cutoff; a posting dated on the
\* cutoff, or without an exact date, or run without a cutoff, goes on to
\* the location filter.
C8_DateCutoffExcludes ==
  run_step.stage /= "none" =>
    LET p == run_step.posting
        days == run_args[1].posted_within_days
    IN  (run_step.stage = "date") <=>
          /\ days /= None
          /\ p.date_posted_confidence = "exact"
          /\ p.date_posted /= None
          /\ p.date_posted[1] < Today - days[1]

\* C8 witness: with a cutoff set, one posting was excluded for its exact
\* date before the cutoff
C8_Witness ==
  /\ run_step.stage = "date"
  /\ run_args[1].posted_within_days /= None
  /\ run_step.posting.date_posted_confidence = "exact"
  /\ run_step.posting.date_posted[1] < Today - run_args[1].posted_within_days[1]

\* C11: score_track is never negative, on any track, and on the track "all"
\* it is exactly 1 whatever the posting holds.
C11_ScoreNonNegativeAllIsOne ==
  result.op = "score_track" =>
    /\ result.ret >= 0
    /\ result.track = "all" => result.ret = 1

\* C11 witness: a posting with more negative keywords than its keywords of
\* the track can pay for scores 0
C11_Witness ==
  /\ result.op = "score_track"
  /\ result.track /= "all"
  /\ result.ret = 0
  /\ RawScore(subject[1], result.track) < 0

\* C12: on a non-universal track, a posting whose title is a strong keyword
\* of the track, with an empty description, scores strictly higher than a
\* posting with that keyword as its description and a title that holds no
\* keyword of the track.
C12_TitleBeatsDescription ==
  (/\ result.op = "score_track_pair"
   /\ subject[1].title \in StrongKeywords(result.track)
   /\ subject[1].description = <<>>
   /\ other[1].description = subject[1].title
   /\ ~HasKeywordOf(result.track, lower(other[1].title)))
    => result.in_title > result.in_description

\* C12 witness: the keyword scores in the description too, under a title
\* that is not empty
C12_Witness ==
  /\ result.op = "score_track_pair"
  /\ other[1].title /= <<>>
  /\ result.in_description > 0
  /\ result.in_title > result.in_description

\* The pieces of text between occurrences of the one-character separator
RECURSIVE split(_, _)
split(text, sep) ==
  IF \A i \in DOMAIN text : text[i] /= sep THEN <<text>>
  ELSE LET at == CHOOSE i \in DOMAIN text :
                   text[i] = sep /\ \A j \in 1..(i - 1) : text[j] /= sep
       IN  <<SubSeq(text, 1, at - 1)>>
             \o split(SubSeq(text, at + 1, Len(text)), sep)

\* The place of a track's name in the order cyber, it, swe, data, 0 for a
\* text that is not such a name
TrackOrder(name) ==
  IF name = TrackValue["cyber"] THEN 1
  ELSE IF name = TrackValue["it"] THEN 2
  ELSE IF name = TrackValue["swe"] THEN 3
  ELSE IF name = TrackValue["data"] THEN 4
  ELSE 0

\* C13: track_match_label is the names, joined by "|", of exactly the
\* tracks other than "all" whose score is at least min_score (3 when not
\* given), in the order cyber, it, swe, data; it is empty iff no track
\* reaches min_score, and a second call returns the same text.
C13_LabelIsOrderedMatches ==
  result.op = "track_match_label" =>
    LET p == subject[1]
        min_score == IF "min_score" \in DOMAIN result.kwargs
                       THEN result.kwargs.min_score ELSE 3
        reached == { t \in NonUniversalTracks : score_track(p, t) >= min_score }
        names == IF result.ret = <<>> THEN <<>> ELSE split(result.ret, "|")
    IN  /\ { names[i] : i \in DOMAIN names } = { TrackValue[t] : t \in reached }
        /\ \A i \in DOMAIN names : TrackOrder(names[i]) > 0
        /\ \A i, j \in DOMAIN names :
              i < j => TrackOrder(names[i]) < TrackOrder(names[j])
        /\ ~Contains(TrackValue["all"], result.ret)
        /\ (result.ret = <<>>) <=> (reached = {})
        /\ result.before /= None => result.before[1] = result.ret

\* C13 witness: with min_score not given, a second call on a posting that
\* reaches it on several tracks but not on all four
C13_Witness ==
  /\ result.op = "track_match_label"
  /\ result.kwargs = <<>>
  /\ result.calls = 2
  /\ Contains(<<"|">>, result.ret)
  /\ \E t \in NonUniversalTracks : score_track(subject[1], t) < 3

(***************************************************************************)
(* Claims about check_active.                                              *)
(***************************************************************************)
\* C14: for a response whose status is not 200, the verdict is inactive iff
\* the status is 404 or 410 and unknown for every other status, and the
\* reason contains the status code.
C14_StatusVerdict ==
  (/\ result.op = "check_active"
   /\ probe[1].raised = NoExc
   /\ probe[1].status_code /= 200)
    => /\ result.raised = NoExc
       /\ result.ret.status = (IF probe[1].status_code \in {404, 410}
                                 THEN "inactive" ELSE "unknown")
       /\ Contains(str_int(probe[1].status_code), result.ret.reason)

\* C14 witness: 410 gives inactive with the code in the reason
C14_Witness ==
  /\ result.op = "check_active"
  /\ probe[1].raised = NoExc
  /\ probe[1].status_code = 410
  /\ result.ret.status = "inactive"
  /\ Contains(<<"4","1","0">>, result.ret.reason)

\* The closed signals that occur in a lower-cased body, by place in the list
ClosedIn(body) ==
  { i \in DOMAIN _CLOSED_SIGNALS : Contains(_CLOSED_SIGNALS[i], lower(body)) }

\* An apply signal occurs in a lower-cased body
ApplyIn(body) ==
  \E i \in DOMAIN _APPLY_SIGNALS : Contains(_APPLY_SIGNALS[i], lower(body))

\* C15: for a response with status 200 the verdict is inactive iff the
\* lower-cased body holds a closed signal, the reason naming the first
\* signal of the list that occurs; otherwise it is active, with the reason
\* "apply button detected" when an apply signal occurs and "no closed
\* signals found" when none does.  Apply signals never change the verdict.
C15_BodyVerdict ==
  (/\ result.op = "check_active"
   /\ probe[1].raised = NoExc
   /\ probe[1].status_code = 200)
    => LET closed == ClosedIn(probe[1].text)
           first == CHOOSE i \in closed : \A j \in closed : i <= j
       IN  /\ result.raised = NoExc
           /\ (result.ret.status = "inactive") <=> (closed /= {})
           /\ (result.ret.status = "active") <=> (closed = {})
           /\ closed /= {} =>
                 /\ Contains(_CLOSED_SIGNALS[first], result.ret.reason)
                 /\ \A j \in closed :
                       Contains(_CLOSED_SIGNALS[j], result.ret.reason)
                         => Contains(_CLOSED_SIGNALS[j], _CLOSED_SIGNALS[first])
           /\ closed = {} =>
                 result.ret.reason =
                   (IF ApplyIn(probe[1].text)
                      THEN <<"a","p","p","l","y"," ","b","u","t","t","o","n"," ","d","e","t","e","c","t","e","d">>
                      ELSE <<"n","o"," ","c","l","o","s","e","d"," ","s","i","g","n","a","l","s"," ","f","o","u","n","d">>)

\* C15 witness: a body with a closed signal and an apply signal is inactive
C15_Witness ==
  /\ result.op = "check_active"
  /\ probe[1].raised = NoExc
  /\ probe[1].status_code = 200
  /\ ClosedIn(probe[1].text) /= {}
  /\ ApplyIn(probe[1].text)
  /\ result.ret.status = "inactive"

\* C16: check_active never raises: whatever exception the request throws,
\* it returns unknown with a reason that is not empty, "request timed out"
\* when the exception is a timeout.
C16_NeverRaises ==
  (result.op = "check_active" /\ probe[1].raised /= NoExc)
    => /\ result.raised = NoExc
       /\ result.ret.status = "unknown"
       /\ result.ret.reason /= <<>>
       /\ probe[1].raised \in {"Timeout", "ConnectTimeout", "ReadTimeout"}
             => result.ret.reason = <<"r","e","q","u","e","s","t"," ","t","i","m","e","d"," ","o","u","t">>

\* C17: in cmd_run a posting whose extraction was blocked is not dropped by
\* the location filter, even when allowed locations are configured and none
\* matches its location; a posting that was not blocked and whose location
\* matches no allowed location is dropped.
C17_BlockedBypassesLocation ==
  run_step.stage /= "none" =>
    LET filter == LocationFilter(
                    [allowed_locations |-> run_args[1].locations,
                     include_remote |-> ~run_args[1].no_remote])
        p == run_step.posting
    IN  /\ (run_step.blocked /\ run_args[1].locations /= <<>>)
              => run_step.stage /= "location"
        /\ (~run_step.blocked /\ run_step.stage /= "date"
               /\ ~matches(filter, p))
              => run_step.stage = "location"

\* C18: the posting cmd_run builds uses the snippet only when the
\* extraction was blocked: then the title is the search title, the
\* description the snippet, company and location "Unknown", the date absent
\* with unknown confidence; when not blocked the company and description
\* are the extracted ones, empty or not.  Either way posting_url is the
\* search result's URL and an empty extracted title gives the search title.
C18_SnippetFallbackOnlyWhenBlocked ==
  run_step.stage /= "none" =>
    LET p == run_step.posting
        r == run_step.search_result
    IN  /\ p.posting_url = r.url
        /\ run_step.blocked =>
              /\ p.title = strip(r.title)
              /\ p.description = r.snippet
              /\ p.company = Unknown
              /\ p.location = Unknown
              /\ p.date_posted = None
              /\ p.date_posted_confidence = "unknown"
        /\ ~run_step.blocked =>
              (r.snippet /= <<>> => p.description /= r.snippet)

\* C19: a posting, after construction and after the copy cmd_run makes to
\* set its category, has is_remote true if its location contains "remote"
\* in any letter case; and one constructed with is_remote true keeps it
\* true whatever its location.
C19_RemoteInferredAndKept ==
  subject /= None =>
    /\ Contains(REMOTE, lower(subject[1].location)) => subject[1].is_remote
    /\ ("is_remote" \in DOMAIN kw[1] /\ kw[1].is_remote)
          => subject[1].is_remote

\* C19 witness: a copy with its category set, of a posting constructed
\* with is_remote false and the location "REMOTE"
C19_Witness ==
  /\ subject /= None
  /\ subject[1].category /= None
  /\ "is_remote" \in DOMAIN kw[1]
  /\ ~kw[1].is_remote
  /\ subject[1].location = RemoteUpper
  /\ subject[1].is_remote

\* text neither starts nor ends with whitespace
Trimmed(text) ==
  text = <<>> \/ (text[1] \notin Whitespace /\ text[Len(text)] \notin Whitespace)

\* C20, as stated: after construction each of title, company, location and
\* description has no leading or trailing whitespace, for every input text.
C20_FourFieldsTrimmed ==
  subject /= None =>
    /\ Trimmed(subject[1].title)
    /\ Trimmed(subject[1].company)
    /\ Trimmed(subject[1].location)
    /\ Trimmed(subject[1].description)

\* C20, amended: after construction each of title, company and location
\* has no leading or trailing whitespace, for every input text.
C20_ThreeFieldsTrimmed ==
  subject /= None =>
    /\ Trimmed(subject[1].title)
    /\ Trimmed(subject[1].company)
    /\ Trimmed(subject[1].location)

\* C20 witness: a posting constructed from a title, a company and a
\* location that all had whitespace around them
C20_Witness ==
  /\ subject /= None
  /\ ~Trimmed(kw[1].title)
  /\ ~Trimmed(kw[1].company)
  /\ ~Trimmed(kw[1].location)
  /\ subject[1].title = SweIntern
  /\ subject[1].company = Acme
  /\ subject[1].location = NewYork

(***************************************************************************)
(* Claims about the core operations together.                              *)
(***************************************************************************)
\* C21: the core operations return normally and never raise for any
\* well-typed posting; here compute_hash, on each of two postings.
C21_CoreNeverRaises ==
  result.op = "compute_hash" =>
    /\ result.of_posting.raised = NoExc
    /\ result.of_other.raised = NoExc

\* C27: the seen-set never loses an element; an is_new step either returns
\* true and adds exactly the posting's fingerprint, seen_count growing by 1,
\* or returns false and leaves the seen-set and seen_count as they were.
C27_SeenSetGrowsOnlyByIsNew ==
  call.op = "is_new" =>
    /\ call.before \subseteq seen
    /\ \/ /\ call.raised = NoExc
          /\ call.ret
          /\ seen = call.before \cup {Fingerprint(call.arg)}
          /\ seen_count(seen) = seen_count(call.before) + 1
       \/ /\ call.raised = NoExc
          /\ ~call.ret
          /\ seen = call.before

C28_DateConfidenceConsistent ==
  run_step.stage /= "none" =>
    LET ext == run_step.ext
        response == run_step.response
        p == run_step.posting
        parsed_iso ==
          /\ response.raised = NoExc
          /\ response.schema /= None
          /\ response.schema[1].datePosted /= None
          /\ response.schema[1].datePosted[1].isoformat
    IN  /\ ext.date_posted_confidence = "unknown" => ext.date_posted = None
        /\ p.date_posted_confidence = "unknown" => p.date_posted = None
        /\ (ext.date_posted_confidence = "exact") <=> parsed_iso
        /\ ext.date_posted_confidence = "exact" => ext.date_posted /= None
        /\ ext.date_posted_confidence /= "estimated"
        /\ p.date_posted_confidence /= "estimated"

C28_Witness ==
  /\ run_step.stage /= "none"
  /\ run_step.ext.date_posted_confidence = "exact"
  /\ run_step.ext.date_posted /= None
  /\ run_step.posting.date_posted = run_step.ext.date_posted

(***************************************************************************)
(* Claims about one pipeline run.                                          *)
(***************************************************************************)
\* C29: for every list of raw search results the run gives an output; no
\* two output postings share a fingerprint, every output posting carries
\* the category categorize gives it, and the output keeps the input order
\* of the results that survive.
C29_OutputDistinctCategorizedOrdered ==
  /\ run_pc \in {"start", "loop", "return 0", "return 1"}
  /\ \A i, j \in DOMAIN run_postings :
        i /= j => Fingerprint(run_postings[i]) /= Fingerprint(run_postings[j])
  /\ \A i \in DOMAIN run_postings :
        run_postings[i].category = Some(categorize(run_postings[i]))
  /\ \E from \in [DOMAIN run_postings -> DOMAIN run_results] :
        /\ \A i, j \in DOMAIN run_postings : i < j => from[i] < from[j]
        /\ \A i \in DOMAIN run_postings :
              run_postings[i].posting_url = run_results[from[i]].url

\* C30: a loop iteration records the posting's fingerprint exactly when the
\* posting passed the date and location filters, whatever the category
\* filter then decides: a posting dropped by the date or location filter
\* leaves the deduplicator as it was, and a posting that passed both is
\* recorded, then dropped as a duplicate, dropped by category, or appended.
C30_RecordedAfterLocationBeforeCategory ==
  run_step.stage /= "none" =>
    LET p == run_step.posting
        filter == LocationFilter(
                    [allowed_locations |-> run_args[1].locations,
                     include_remote |-> ~run_args[1].no_remote])
        passed == /\ ~date_excluded(cutoff_of(run_args[1]), p)
                  /\ matches(filter, p)
    IN  /\ ~passed <=> run_step.stage \in {"date", "location"}
        /\ passed =>
              /\ run_step.stage \in {"duplicate", "category", "appended"}
              /\ Fingerprint(p) \in run_seen

(***************************************************************************)
(* Claims about the worksheet.                                             *)
(***************************************************************************)
\* C22: ensure_header has four outcomes: an empty sheet gets COLUMNS
\* inserted as row 1; a header equal to COLUMNS causes no write; a header
\* that is a non-empty proper prefix of COLUMNS gets the missing trailing
\* names written into row 1 after the existing ones, no existing cell and no
\* data row rewritten; any other header raises ValueError with no write.
C22_EnsureHeaderOutcomes ==
  sheet_call.op = "ensure_header" =>
    LET before == sheet_call.before
        writes == sheet_call.writes
        n == Len(before[1])
    IN  IF before = <<>>
          THEN /\ sheet_call.raised = NoExc
               /\ writes = <<[op |-> "insert_row", values |-> COLUMNS,
                              index |-> 1]>>
               /\ sheet = <<COLUMNS>>
        ELSE IF before[1] = COLUMNS
          THEN /\ sheet_call.raised = NoExc
               /\ writes = <<>>
               /\ sheet = before
        ELSE IF /\ n \in 1..(Len(COLUMNS) - 1)
                /\ \A c \in 1..n : before[1][c] = COLUMNS[c]
          THEN /\ sheet_call.raised = NoExc
               /\ Len(writes) = Len(COLUMNS) - n
               /\ \A k \in DOMAIN writes :
                     writes[k] = [op |-> "update_cell", row |-> 1,
                                  col |-> n + k, value |-> COLUMNS[n + k]]
               /\ sheet[1] = COLUMNS
               /\ Len(sheet) = Len(before)
               /\ \A r \in 2..Len(before) : sheet[r] = before[r]
        ELSE /\ sheet_call.raised = "ValueError"
             /\ writes = <<>>
             /\ sheet = before

C22_Witness ==
  /\ sheet_call.op = "ensure_header"
  /\ Len(sheet_call.before) = 2
  /\ sheet_call.before[1] = SubSeq(COLUMNS, 1, 11)
  /\ Len(sheet_call.writes) = 3
  /\ sheet[1] = COLUMNS

\* C23: upsert_rows appends a row for exactly the postings whose fingerprint
\* is neither in the Hash column before the call nor that of a posting
\* appended earlier in the call, each row carrying the fingerprint, and
\* returns the number of rows appended.
C23_UpsertAppendsUnseen ==
  sheet_call.op = "upsert_rows" =>
    /\ sheet_call.raised = NoExc
    /\ LET before == sheet_call.before
           new == FirstOccurrences(sheet_call.postings, collect_hashes(before))
       IN  /\ sheet_call.ret = Len(new)
           /\ Len(sheet) = Len(before) + Len(new)
           /\ SubSeq(sheet, 1, Len(before)) = before
           /\ \A k \in DOMAIN new :
                 sheet[Len(before) + k][_HASH_COL_INDEX + 1]
                   = Fingerprint(new[k][2])

(***************************************************************************)
(* Claims about the search sources.                                        *)
(***************************************************************************)
RECURSIVE Concat(_)
Concat(seqs) == IF seqs = <<>> THEN <<>> ELSE Head(seqs) \o Concat(Tail(seqs))

\* The URLs of a list of items, trimmed
UrlsOf(items) ==
  [i \in DOMAIN items |->
     IF items[i].url = None THEN <<>> ELSE strip(items[i].url[1])]

\* The items the API returned for query q, over all its pages
Returned(q) ==
  LET pages == SelectSeq(fetch.log, LAMBDA e : e.q = q)
  IN  Concat([k \in DOMAIN pages |-> pages[k].batch])

\* The URLs of all API responses of the fetch, in the order received
ApiUrls == UrlsOf(Concat([q \in DOMAIN fetch.queries |-> Returned(q)]))

\* The first n elements of a sequence, all of them when it has fewer
Take(items, n) ==
  SubSeq(items, 1, IF n > Len(items) THEN Len(items) ELSE max(n, 0))

\* The same with each query's items cut to the first max_results
PassedUrls ==
  UrlsOf(Concat([q \in DOMAIN fetch.queries |->
                   Take(Returned(q), fetch.max_results)]))

FirstAt(url, urls) == CHOOSE i \in DOMAIN urls :
                        /\ urls[i] = url
                        /\ \A j \in 1..(i - 1) : urls[j] /= url

\* C25: fetch returns a list whose URLs are non-empty and pairwise
\* distinct, whose length does not exceed max_results, and whose order is
\* the order of first appearance in the API responses.
C25_FetchDistinctCappedInApiOrder ==
  fetch.pc = "returned" =>
    LET urls == [i \in DOMAIN fetch.results |-> fetch.results[i].url]
    IN  /\ \A i \in DOMAIN urls : urls[i] /= <<>>
        /\ \A i, j \in DOMAIN urls : i /= j => urls[i] /= urls[j]
        /\ Len(urls) <= fetch.max_results
        /\ \A i, j \in DOMAIN urls :
              i < j => FirstAt(urls[i], ApiUrls) < FirstAt(urls[j], ApiUrls)

\* C25, amended: the URLs are non-empty and pairwise distinct, there are at
\* most max_results of them, none when max_results is negative, and their
\* order is the order of first appearance among the items each query
\* passes on, which are the first max_results items the API returned for it.
C25_FetchDistinctCappedInPassedOrder ==
  fetch.pc = "returned" =>
    LET urls == [i \in DOMAIN fetch.results |-> fetch.results[i].url]
    IN  /\ \A i \in DOMAIN urls : urls[i] /= <<>>
        /\ \A i, j \in DOMAIN urls : i /= j => urls[i] /= urls[j]
        /\ Len(urls) <= max(fetch.max_results, 0)
        /\ \A i \in DOMAIN urls : \E k \in DOMAIN PassedUrls :
              PassedUrls[k] = urls[i]
        /\ \A i, j \in DOMAIN urls :
              i < j => FirstAt(urls[i], PassedUrls) < FirstAt(urls[j], PassedUrls)

C25_Witness ==
  /\ fetch.pc = "returned"
  /\ fetch.source = "brave"
  /\ Len(fetch.log) = 2
  /\ Len(fetch.results) = 3
  /\ fetch.results[2].url = UrlJob2
  /\ fetch.results[3].url = UrlJob3
  /\ FirstAt(UrlJob3, ApiUrls) < FirstAt(UrlJob2, ApiUrls)

\* C26: _search retries only on HTTP 429, at most 3 times, sleeping 1, 2
\* and 4 seconds before the successive retries; a response other than 429
\* ends it with that response's results, a fourth 429 ends it with the empty
\* list after 4 requests and 3 sleeps, and a timeout, HTTP error or
\* connection error ends it at once with the empty list.
C26_RetryOnly429 ==
  search.pc /= "none" =>
    LET log == search.log
        n == Len(log)
        Is429(r) == r.raised = NoExc /\ r.status_code = 429
    IN  /\ n <= 4
        /\ \A k \in 1..(n - 1) : Is429(log[k])
        /\ search.pc = "attempt" =>
              /\ \A k \in 1..n : Is429(log[k])
              /\ search.sleeps = SubSeq(<<1, 2, 4>>, 1, n)
        /\ search.pc = "returned" =>
              /\ n >= 1
              /\ search.sleeps = SubSeq(<<1, 2, 4>>, 1, n - 1)
              /\ Is429(log[n]) => (n = 4 /\ search.ret = <<>>)
              /\ log[n].raised /= NoExc => search.ret = <<>>
              /\ (log[n].raised = NoExc /\ log[n].status_code >= 400)
                    => search.ret = <<>>
              /\ (log[n].raised = NoExc /\ log[n].status_code < 400) =>
                    search.ret =
                      IF log[n].data.web = None THEN <<>>
                      ELSE IF log[n].data.web[1].results = None THEN <<>>
                      ELSE log[n].data.web[1].results[1]

C26_Witness ==
  /\ search.pc = "returned"
  /\ Len(search.log) = 4
  /\ search.log[4].raised = NoExc
  /\ search.log[4].status_code = 429
  /\ search.sleeps = <<1, 2, 4>>
  /\ search.ret = <<>>

====
